---- MODULE Spec2Model ----
(***************************************************************************)
(* Commit / prove / verify pipeline of fidesinnova.cpp (BN254 KZG, sum-    *)
(* check, Fiat-Shamir transcript) and the KZG namespace of kzg_mcl.hpp.    *)
(*                                                                         *)
(* Representation.  Fr is the prime field Z_FrModulus.  G1, G2 and GT are  *)
(* cyclic groups of order FrModulus; a group element is written as its     *)
(* discrete logarithm to the base of the hashed generator (g1, g2,         *)
(* e(g1,g2)), so point addition is addition mod FrModulus, scalar          *)
(* multiplication is multiplication, and pairing(a, b) is a*b.  A byte is  *)
(* a digit to the base ByteBase; an Fr, a G1 point and a SHA-256 digest    *)
(* serialize to FrByteSize bytes and a uint64_t holds U64ByteSize bytes,   *)
(* which keeps the proportions of the program (32-byte field elements and  *)
(* digests, 8-byte integers, opcode tags up to 255).                       *)
(***************************************************************************)
EXTENDS Integers, Sequences, FiniteSets, TLC

VARIABLES
    \* fidesinnova.cpp KZG functions applied to one polynomial and point
    kz_phase, kz_pp, kz_poly, kz_z, kz_commit, kz_open, kz_ok, kz_vm,
    \* kzg_mcl.hpp KZG namespace applied to one coefficient vector and point
    api_phase, api_srs, api_coeffs, api_z, api_commit, api_open, api_ok, api_err,
    \* sum-check prover and verifier on one table
    sc_phase, sc_table, sc_tr0, sc_prover, sc_verifier,
    \* commit-prove-verify pipeline
    phase, trc, cc, inst, uses_logic, lut_files, prover, prf, vcc, vinst, verifier,
    \* the proof file, what read_proof_file made of it, and verify mode of main
    pf_file, pf_read, exit_code, printed,
    \* trace_with_gdb on one debugger session, run_vm on one program
    tw_phase, tw_resp, tw_maxSteps, tw_trace, vm_phase, vm_prog, vm_inputs, vm_out,
    \* one function of the program applied to one input
    fn_phase, fn_in, fn_out

kzVars == <<kz_phase, kz_pp, kz_poly, kz_z, kz_commit, kz_open, kz_ok, kz_vm>>
apiVars == <<api_phase, api_srs, api_coeffs, api_z, api_commit, api_open, api_ok, api_err>>
scVars == <<sc_phase, sc_table, sc_tr0, sc_prover, sc_verifier>>
pipeVars == <<phase, trc, cc, inst, uses_logic, lut_files, prover, prf, vcc, vinst, verifier>>
fileVars == <<pf_file, pf_read, exit_code, printed>>
traceVars == <<tw_phase, tw_resp, tw_maxSteps, tw_trace, vm_phase, vm_prog, vm_inputs, vm_out>>
fnVars == <<fn_phase, fn_in, fn_out>>
vars == <<kzVars, apiVars, scVars, pipeVars, fileVars, traceVars, fnVars>>

----------------------------------------------------------------------------
(* Sizes of the scaled arithmetic *)

FrModulus == 40961
ByteBase == 16
FrByteSize == 4
U64ByteSize == 2
DigestSize == 4

RECURSIVE IntPow(_, _)
IntPow(b, e) == IF e = 0 THEN 1 ELSE b * IntPow(b, e - 1)

U64Modulus == IntPow(ByteBase, U64ByteSize)

RECURSIVE BigEndianValue(_)
BigEndianValue(b) ==
    IF Len(b) = 0 THEN 0
    ELSE BigEndianValue(SubSeq(b, 1, Len(b) - 1)) * ByteBase + b[Len(b)]

BigEndianBytes(v, n) == [i \in 1..n |-> (v \div IntPow(ByteBase, n - i)) % ByteBase]
LittleEndianBytes(v, n) == [i \in 1..n |-> (v \div IntPow(ByteBase, i - 1)) % ByteBase]

Reverse(s) == [i \in 1..Len(s) |-> s[Len(s) + 1 - i]]

----------------------------------------------------------------------------
(* Fr *)

FrAdd(a, b) == (a + b) % FrModulus
FrSub(a, b) == (a + FrModulus - b) % FrModulus
FrMul(a, b) == (a * b) % FrModulus

RECURSIVE FrPow(_, _)
FrPow(a, e) ==
    IF e = 0 THEN 1
    ELSE LET h == FrPow(a, e \div 2)
             sq == FrMul(h, h)
         IN IF e % 2 = 1 THEN FrMul(sq, a) ELSE sq

FrInv(a) == FrPow(a, FrModulus - 2)
FrDiv(a, b) == FrMul(a, FrInv(b))

FrSerialize(x) == LittleEndianBytes(x, FrByteSize)
G1Serialize(g) == LittleEndianBytes(g, FrByteSize)

fr_from_u64(v) == BigEndianValue(BigEndianBytes(v % U64Modulus, U64ByteSize)) % FrModulus
fr_zero == 0
fr_one == fr_from_u64(1)

fr_to_u64(x) ==
    LET buf == FrSerialize(x)
        n == Len(buf)
        s == IF n > U64ByteSize THEN n - U64ByteSize ELSE 0
    IN BigEndianValue(SubSeq(buf, s + 1, n))

----------------------------------------------------------------------------
(* SHA-256 as a deterministic digest of a byte string, and the transcript *)

HashIV == 27145
HashMul == 1109
HashMod == 46337
HashFinalMul == 25173

RECURSIVE HashMulPow(_)
\* HashMul^e mod HashMod
HashMulPow(e) ==
    IF e = 0 THEN 1
    ELSE LET h == HashMulPow(e \div 2)
             sq == (h * h) % HashMod
         IN IF e % 2 = 1 THEN (sq * HashMul) % HashMod ELSE sq

RECURSIVE HashSpan(_, _, _)
\* what absorbing the bytes v[lo..hi] one after the other (h := h*HashMul + byte + 1)
\* adds to the state
HashSpan(v, lo, hi) ==
    IF lo > hi THEN 0
    ELSE IF lo = hi THEN (v[lo] + 1) % HashMod
    ELSE LET mid == (lo + hi) \div 2
         IN (HashSpan(v, lo, mid) * HashMulPow(hi - mid) + HashSpan(v, mid + 1, hi)) % HashMod

HashAbsorb(v) == (HashIV * HashMulPow(Len(v)) + HashSpan(v, 1, Len(v))) % HashMod

hash_bytes(v) ==
    BigEndianBytes((HashAbsorb(v) * HashFinalMul + Len(v)) % HashMod, DigestSize)

\* the first 8 bytes of a digest as a big-endian uint64_t
DigestTop64(h) == BigEndianValue(SubSeq(h, 1, U64ByteSize))

absorb(st, a) == st \o a
absorb_fr(st, x) == st \o FrSerialize(x)
absorb_g1(st, g) == st \o G1Serialize(g)
squeeze(st) == hash_bytes(st)
challenge(st) == fr_from_u64(DigestTop64(squeeze(st)))

----------------------------------------------------------------------------
(* KZG with the deterministic SRS (fidesinnova.cpp) *)

RECURSIVE poly_normalize(_)
poly_normalize(c) ==
    IF Len(c) > 0 /\ c[Len(c)] = 0 THEN poly_normalize(SubSeq(c, 1, Len(c) - 1)) ELSE c

\* "fidesinnova_srs"
SrsSeedString == <<102, 105, 100, 101, 115, 105, 110, 110, 111, 118, 97, 95, 115, 114, 115>>
fr_from_seed32(h) == BigEndianValue(h) % FrModulus

kzg_setup_deterministic(max_deg) ==
    LET s == fr_from_seed32(hash_bytes(SrsSeedString))
    IN [g1 |-> 1, g2 |-> 1,
        srs_g1 |-> [i \in 1..(max_deg + 1) |-> FrMul(1, FrPow(s, i - 1))],
        g2_s |-> FrMul(1, s),
        s |-> s]

kzg_commit_throws(pp, f) == Len(f) > Len(pp.srs_g1)

RECURSIVE CommitAcc(_, _, _)
CommitAcc(srs, f, k) ==
    IF k = 0 THEN 0
    ELSE LET acc == CommitAcc(srs, f, k - 1)
         IN IF f[k] = 0 THEN acc ELSE FrAdd(acc, FrMul(srs[k], f[k]))

kzg_commit(pp, f) == CommitAcc(pp.srs_g1, f, Len(f))

RECURSIVE HornerRev(_, _, _)
\* q_rev[i] = rev[i] + z*q_rev[i-1], as a sequence q_rev[0..k-1]
HornerRev(rev, z, k) ==
    IF k = 1 THEN <<rev[1]>>
    ELSE LET prev == HornerRev(rev, z, k - 1)
         IN Append(prev, FrAdd(rev[k], FrMul(z, prev[k - 1])))

\* kzg_open without the std::reverse of the quotient's coefficients
kzg_open_unreversed(pp, f, z) ==
    IF Len(f) = 0 THEN [value |-> 0, witness |-> 0]
    ELSE LET deg == Len(f) - 1
             q_rev == HornerRev(Reverse(f), z, deg + 1)
         IN [value |-> q_rev[deg + 1],
             witness |-> kzg_commit(pp, poly_normalize(SubSeq(q_rev, 1, deg)))]

kzg_open(pp, f, z) ==
    IF Len(f) = 0 THEN [value |-> 0, witness |-> 0]
    ELSE LET deg == Len(f) - 1
             rev == Reverse(f)
             q_rev == HornerRev(rev, z, deg + 1)
             q_coeff == Reverse(SubSeq(q_rev, 1, deg))
             q == poly_normalize(q_coeff)
         IN [value |-> q_rev[deg + 1], witness |-> kzg_commit(pp, q)]

\* q_coeff of kzg_open, for a non-empty f: q_rev[0..deg-1], reversed
kzg_open_quotient(f, z) ==
    Reverse(SubSeq(HornerRev(Reverse(f), z, Len(f)), 1, Len(f) - 1))

pairing(a, b) == FrMul(a, b)

kzg_verify(pp, commit, z, value, witness) ==
    LET C_minus_v == FrSub(commit, FrMul(pp.g1, value))
        gs_minus_zg2 == FrSub(pp.g2_s, FrMul(pp.g2, z))
    IN pairing(C_minus_v, pp.g2) = pairing(witness, gs_minus_zg2)

\* value of a coefficient vector at a point, by definition
RECURSIVE PolyValue(_, _)
PolyValue(f, z) ==
    IF Len(f) = 0 THEN 0
    ELSE FrAdd(f[1], FrMul(z, PolyValue(SubSeq(f, 2, Len(f)), z)))

----------------------------------------------------------------------------
(* KZG namespace of kzg_mcl.hpp *)

trustedSetup(n, tau) ==
    [g1_powers |-> [i \in 1..n |-> FrMul(1, FrPow(tau, i - 1))],
     g2_1 |-> 1,
     g2_tau |-> FrMul(1, tau)]

RECURSIVE EvalFrom(_, _, _)
\* y after the Horner loop has consumed a[i..n]
EvalFrom(a, z, i) ==
    IF i > Len(a) THEN 0 ELSE FrAdd(FrMul(EvalFrom(a, z, i + 1), z), a[i])

evalPoly(a, z) == EvalFrom(a, z, 1)

RECURSIVE DivRem(_, _, _)
\* rem after the loop of divXminusZ has run down to index i (1-based, i = n: before the loop)
DivRem(a, z, i) ==
    IF i = Len(a) THEN a[Len(a)] ELSE FrAdd(a[i], FrMul(DivRem(a, z, i + 1), z))

\* divXminusZ with q[i] taken one pass late
divXminusZ_late(a, z) ==
    IF Len(a) = 0 THEN [q |-> <<>>, y |-> 0]
    ELSE [q |-> [i \in 1..(Len(a) - 1) |-> DivRem(a, z, i)], y |-> DivRem(a, z, 1)]

divXminusZ(a, z) ==
    IF Len(a) = 0 THEN [q |-> <<>>, y |-> 0]
    ELSE [q |-> [i \in 1..(Len(a) - 1) |-> DivRem(a, z, i + 1)],
          y |-> DivRem(a, z, 1)]

msm_g1(bases, scalars) ==
    IF Len(bases) # Len(scalars) THEN [err |-> "msm len mismatch", g |-> 0]
    ELSE [err |-> "", g |-> CommitAcc(bases, scalars, Len(scalars))]

commit(srs, coeffs) ==
    IF Len(coeffs) > Len(srs.g1_powers) THEN [err |-> "poly degree exceeds SRS", g |-> 0]
    ELSE msm_g1(srs.g1_powers, coeffs)

\* open() of a non-empty coefficient vector
open(srs, coeffs, z) ==
    LET d == divXminusZ(coeffs, z)
    IN IF Len(d.q) > Len(srs.g1_powers)
       THEN [err |-> "witness degree exceeds SRS", y |-> 0, pi |-> 0]
       ELSE LET m == msm_g1(srs.g1_powers, d.q)
            IN [err |-> m.err, y |-> IF m.err = "" THEN d.y ELSE 0, pi |-> m.g]

verify(srs, C, z, y, pi) ==
    LET g1 == 1
        Cminus == FrSub(C, FrMul(g1, y))
        tauMinusZ == FrSub(srs.g2_tau, FrMul(srs.g2_1, z))
    IN pairing(Cminus, srs.g2_1) = pairing(pi, tauMinusZ)

----------------------------------------------------------------------------
(* Interpolation on 0..n-1 and sum-check (fidesinnova.cpp) *)

\* numer * (X - j)
MulByXMinus(numer, j) ==
    LET minus_j == FrSub(fr_zero, fr_from_u64(j))
    IN [a \in 1..(Len(numer) + 1) |->
          FrAdd(IF a <= Len(numer) THEN FrMul(numer[a], minus_j) ELSE 0,
                IF a >= 2 THEN FrMul(numer[a - 1], fr_one) ELSE 0)]

RECURSIVE LagrangeNumer(_, _, _)
\* numer after the inner loop has run over j = 0..k-1 (skipping j = i)
LagrangeNumer(i, k, n) ==
    IF k = 0 THEN <<fr_one>>
    ELSE IF k - 1 = i THEN LagrangeNumer(i, k - 1, n)
    ELSE MulByXMinus(LagrangeNumer(i, k - 1, n), k - 1)

RECURSIVE LagrangeDenom(_, _)
LagrangeDenom(i, k) ==
    IF k = 0 THEN fr_one
    ELSE IF k - 1 = i THEN LagrangeDenom(i, k - 1)
    ELSE FrMul(LagrangeDenom(i, k - 1), FrSub(fr_from_u64(i), fr_from_u64(k - 1)))

PolyAt(c, k) == IF k <= Len(c) THEN c[k] ELSE 0

RECURSIVE InterpAcc(_, _)
\* acc after the outer loop has run over i = 0..m-1
InterpAcc(vals, m) ==
    IF m = 0 THEN <<fr_zero>>
    ELSE LET n == Len(vals)
             i == m - 1
             acc == InterpAcc(vals, m - 1)
             denom_inv == FrDiv(fr_one, LagrangeDenom(i, n))
             numer0 == LagrangeNumer(i, n, n)
             numer == [k \in 1..Len(numer0) |-> FrMul(numer0[k], denom_inv)]
             size == IF Len(numer) > Len(acc) THEN Len(numer) ELSE Len(acc)
         IN [k \in 1..size |->
               FrAdd(PolyAt(acc, k),
                     IF k <= Len(numer) THEN FrMul(numer[k], vals[i + 1]) ELSE 0)]

\* interpolate_on_range0 returning acc as the loops leave it
interpolate_unnormalized(vals) == InterpAcc(vals, Len(vals))

interpolate_on_range0(vals) == poly_normalize(InterpAcc(vals, Len(vals)))

RECURSIVE SumSeq(_)
SumSeq(s) == IF Len(s) = 0 THEN 0 ELSE FrAdd(SumSeq(SubSeq(s, 1, Len(s) - 1)), s[Len(s)])

\* fold_mle with the weights r and 1 - r exchanged
fold_mle_swapped(f, r) ==
    [k \in 1..(Len(f) \div 2) |->
        FrAdd(FrMul(f[2 * k - 1], r), FrMul(f[2 * k], FrSub(fr_one, r)))]

fold_mle(f, r) ==
    [k \in 1..(Len(f) \div 2) |->
        FrAdd(FrMul(f[2 * k - 1], FrSub(fr_one, r)), FrMul(f[2 * k], r))]

RECURSIVE Log2Ceil(_, _)
\* n = 0; while ((1 << n) < size) n++
Log2Ceil(size, n) == IF IntPow(2, n) < size THEN Log2Ceil(size, n + 1) ELSE n

sumcheck_prove_throws(f_table) == IntPow(2, Log2Ceil(Len(f_table), 0)) # Len(f_table)

RECURSIVE ProveRounds(_, _, _, _)
\* the prover's loop from `round` on; cur is the folded table, st the transcript
ProveRounds(cur, st, round, n) ==
    IF round >= n THEN [rounds |-> <<>>, st |-> st, at |-> <<>>, sums |-> <<>>]
    ELSE LET evens == [k \in 1..(Len(cur) \div 2) |-> cur[2 * k - 1]]
             odds == [k \in 1..(Len(cur) \div 2) |-> cur[2 * k]]
             g0 == SumSeq(evens)
             g1 == SumSeq(odds)
             st1 == absorb_fr(absorb_fr(st, g0), g1)
             r == challenge(st1)
             nxt == fold_mle(cur, r)
             rest == ProveRounds(nxt, st1, round + 1, n)
         IN [rounds |-> <<[g0 |-> g0, g1 |-> FrSub(g1, g0)]>> \o rest.rounds,
             st |-> rest.st,
             at |-> <<st1>> \o rest.at,
             sums |-> <<SumSeq(nxt)>> \o rest.sums]

\* pf: the SumcheckProof; st: the transcript afterwards; at: the transcript at each
\* challenge; sums: the sum of the folded table after each round
sumcheck_prove(f_table, st) ==
    LET n == Log2Ceil(Len(f_table), 0)
        run == ProveRounds(f_table, st, 0, n)
    IN [pf |-> [n_vars |-> n, claimed_sum |-> SumSeq(f_table), rounds |-> run.rounds],
        st |-> run.st, at |-> run.at, sums |-> run.sums]

RECURSIVE VerifyRounds(_, _, _, _)
\* the verifier's loop from `round` on; oob: pf.rounds[round] was read past the end
VerifyRounds(pf, st, cur_sum, round) ==
    IF round >= pf.n_vars THEN [ok |-> TRUE, st |-> st, at |-> <<>>, sums |-> <<>>, oob |-> FALSE]
    ELSE IF round + 1 > Len(pf.rounds)
    THEN [ok |-> FALSE, st |-> st, at |-> <<>>, sums |-> <<>>, oob |-> TRUE]
    ELSE LET rd == pf.rounds[round + 1]
             g0 == rd.g0
             g1 == FrAdd(rd.g0, rd.g1)
         IN IF FrAdd(g0, g1) # cur_sum
            THEN [ok |-> FALSE, st |-> st, at |-> <<>>, sums |-> <<>>, oob |-> FALSE]
            ELSE LET st1 == absorb_fr(absorb_fr(st, g0), g1)
                     r == challenge(st1)
                     g_eval == FrAdd(g0, FrMul(rd.g1, r))
                     rest == VerifyRounds(pf, st1, g_eval, round + 1)
                 IN [ok |-> rest.ok, st |-> rest.st, at |-> <<st1>> \o rest.at,
                     sums |-> <<g_eval>> \o rest.sums, oob |-> rest.oob]

sumcheck_verify(pf, st, claimed_sum) == VerifyRounds(pf, st, claimed_sum, 0)

----------------------------------------------------------------------------
(* Values of the variables a specification does not use *)

NoOpening == [value |-> 0, witness |-> 0]
NoCall == [st |-> "none", err |-> "", g |-> 0, y |-> 0, pi |-> 0]
NoSumcheck == [pf |-> [n_vars |-> 0, claimed_sum |-> 0, rounds |-> <<>>],
               st |-> <<>>, at |-> <<>>, sums |-> <<>>]
NoSumcheckVerdict == [ok |-> FALSE, st |-> <<>>, at |-> <<>>, sums |-> <<>>, oob |-> FALSE]
NoVmCommit == [st |-> "none", g |-> 0]
NoRead == [st |-> "none", what |-> "", proof |-> <<>>]
NoVmRun == [st |-> "none", trace |-> <<>>]

KzIdle ==
    /\ kz_phase = "idle" /\ kz_pp = kzg_setup_deterministic(0) /\ kz_poly = <<>>
    /\ kz_z = 0 /\ kz_commit = 0 /\ kz_open = NoOpening /\ kz_ok = FALSE
    /\ kz_vm = NoVmCommit

ApiIdle ==
    /\ api_phase = "idle" /\ api_srs = trustedSetup(1, 1) /\ api_coeffs = <<>> /\ api_z = 0
    /\ api_commit = NoCall /\ api_open = NoCall /\ api_ok = FALSE /\ api_err = ""

ScIdle ==
    /\ sc_phase = "idle" /\ sc_table = <<>> /\ sc_tr0 = <<>>
    /\ sc_prover = NoSumcheck /\ sc_verifier = NoSumcheckVerdict

FileIdle == pf_file = <<>> /\ pf_read = NoRead /\ exit_code = -1 /\ printed = <<>>

TwIdle == tw_phase = "idle" /\ tw_resp = <<>> /\ tw_maxSteps = 0 /\ tw_trace = <<>>
VmIdle == vm_phase = "idle" /\ vm_prog = <<>> /\ vm_inputs = <<>> /\ vm_out = NoVmRun
TraceIdle == TwIdle /\ VmIdle
NoInput == [f |-> "none"]
FnIdle == fn_phase = "idle" /\ fn_in = NoInput /\ fn_out = <<>>

RECURSIVE SeqsOfLen(_, _)
SeqsOfLen(S, n) ==
    IF n = 0 THEN {<<>>} ELSE {Append(q, x) : q \in SeqsOfLen(S, n - 1), x \in S}

SeqsUpTo(S, n) == UNION {SeqsOfLen(S, k) : k \in 0..n}

----------------------------------------------------------------------------
(* The KZG functions of fidesinnova.cpp on one polynomial and one point *)

KzMaxDeg == 2
KzCoeffs == {0, 1, 2, FrModulus - 1}
KzPoints == {0, 1, 2, FrModulus - 1, kzg_setup_deterministic(0).s}

KzStart ==
    /\ kz_phase = "init"
    /\ kz_pp = kzg_setup_deterministic(KzMaxDeg)
    /\ kz_poly \in SeqsUpTo(KzCoeffs, KzMaxDeg + 2)
    /\ kz_z \in KzPoints
    /\ kz_commit = 0 /\ kz_open = NoOpening /\ kz_ok = FALSE /\ kz_vm = NoVmCommit

\* G1 C = kzg_commit(pp, f): throws when the SRS is too small
KzCommit ==
    /\ kz_phase = "init"
    /\ IF kzg_commit_throws(kz_pp, kz_poly)
       THEN kz_phase' = "commit_threw" /\ kz_commit' = kz_commit
       ELSE kz_phase' = "committed" /\ kz_commit' = kzg_commit(kz_pp, kz_poly)
    /\ UNCHANGED <<kz_pp, kz_poly, kz_z, kz_open, kz_ok, kz_vm>>

\* the values a read past the end of pp.srs_g1 may yield
KzPast == {0, 1}

\* kzg_commit of jolt_style_vm.cpp: no test of the length; past is what pp.srs_g1[i]
\* yields for an i past the end
vm_kzg_commit(pp, f, past) ==
    CommitAcc([i \in 1..Len(f) |-> IF i <= Len(pp.srs_g1) THEN pp.srs_g1[i] ELSE past], f, Len(f))

\* the loop skips zero coefficients, so it reads past the end only for a non-zero one
vm_reads_past(pp, f) == \E i \in (Len(pp.srs_g1) + 1)..Len(f) : f[i] # 0

\* G1 C = kzg_commit(pp, f) of jolt_style_vm.cpp: a read past the end yields some value
\* or ends the process
KzCommitVm ==
    /\ kz_phase # "idle" /\ kz_vm = NoVmCommit
    /\ IF vm_reads_past(kz_pp, kz_poly)
       THEN kz_vm' \in {[st |-> "crashed", g |-> 0]}
                          \cup {[st |-> "ok", g |-> vm_kzg_commit(kz_pp, kz_poly, past)] : past \in KzPast}
       ELSE kz_vm' = [st |-> "ok", g |-> vm_kzg_commit(kz_pp, kz_poly, 0)]
    /\ UNCHANGED <<kz_phase, kz_pp, kz_poly, kz_z, kz_commit, kz_open, kz_ok>>

KzOpen ==
    /\ kz_phase = "committed"
    /\ kz_open' = kzg_open(kz_pp, kz_poly, kz_z)
    /\ kz_phase' = "opened"
    /\ UNCHANGED <<kz_pp, kz_poly, kz_z, kz_commit, kz_ok, kz_vm>>

KzVerify ==
    /\ kz_phase = "opened"
    /\ kz_ok' = kzg_verify(kz_pp, kz_commit, kz_z, kz_open.value, kz_open.witness)
    /\ kz_phase' = "verified"
    /\ UNCHANGED <<kz_pp, kz_poly, kz_z, kz_commit, kz_open, kz_vm>>

----------------------------------------------------------------------------
(* The KZG namespace of kzg_mcl.hpp on one coefficient vector and one point *)

ApiMaxN == 3
ApiCoeffs == {0, 1, FrModulus - 1}
ApiTaus == {2, 5}
ApiPoints == {0, 1, 2}

ApiStart ==
    /\ api_phase = "init"
    /\ \E n \in 1..ApiMaxN, tau \in ApiTaus :
          /\ api_srs = trustedSetup(n, tau)
          /\ api_coeffs \in SeqsUpTo(ApiCoeffs, n)
    /\ api_z \in ApiPoints
    /\ api_commit = NoCall /\ api_open = NoCall /\ api_ok = FALSE /\ api_err = ""

\* auto C = KZG::commit(srs, coeffs)
ApiCommit ==
    /\ api_phase = "init" /\ api_commit.st = "none"
    /\ LET r == commit(api_srs, api_coeffs)
       IN /\ api_commit' = [NoCall EXCEPT !.st = IF r.err = "" THEN "ok" ELSE "threw",
                                          !.err = r.err, !.g = r.g]
          /\ api_err' = IF r.err = "" THEN api_err ELSE r.err
    /\ UNCHANGED <<api_phase, api_srs, api_coeffs, api_z, api_open, api_ok>>

\* auto [y, pi] = KZG::open(srs, coeffs, z); for an empty vector pi is G1(), a point
\* that no constructor initialises
ApiOpen ==
    /\ api_phase = "init" /\ api_open.st = "none"
    /\ IF Len(api_coeffs) = 0
       THEN /\ \E g \in ApiPoints : api_open' = [NoCall EXCEPT !.st = "ok", !.pi = g]
            /\ api_err' = api_err
       ELSE LET r == open(api_srs, api_coeffs, api_z)
            IN /\ api_open' = [NoCall EXCEPT !.st = IF r.err = "" THEN "ok" ELSE "threw",
                                             !.err = r.err, !.y = r.y, !.pi = r.pi]
               /\ api_err' = IF r.err = "" THEN api_err ELSE r.err
    /\ UNCHANGED <<api_phase, api_srs, api_coeffs, api_z, api_commit, api_ok>>

\* bool ok = KZG::verify(srs, C, z, y, pi), on the values the two calls returned where
\* they returned, and on values of the caller's where they threw
ApiVerify ==
    /\ api_phase = "init" /\ api_commit.st # "none" /\ api_open.st # "none"
    /\ \E C \in (IF api_commit.st = "ok" THEN {api_commit.g} ELSE ApiPoints),
          o \in (IF api_open.st = "ok" THEN {<<api_open.y, api_open.pi>>}
                 ELSE {<<PolyValue(api_coeffs, api_z), g>> : g \in ApiPoints}) :
          api_ok' = verify(api_srs, C, api_z, o[1], o[2])
    /\ api_phase' = "verified"
    /\ UNCHANGED <<api_srs, api_coeffs, api_z, api_commit, api_open, api_err>>

----------------------------------------------------------------------------
(* Sum-check prover and verifier on one table *)

ScMaxVars == 2
ScVals == {0, 1, FrModulus - 1}
ScTranscripts == {<<>>, <<1, 2, 3, 4>>}

ScStart ==
    /\ sc_phase = "init"
    /\ \E n \in 0..ScMaxVars : sc_table \in SeqsOfLen(ScVals, IntPow(2, n))
    /\ sc_tr0 \in ScTranscripts
    /\ sc_prover = NoSumcheck /\ sc_verifier = NoSumcheckVerdict

\* pf = sumcheck_prove(t, tr_P)
ScProve ==
    /\ sc_phase = "init"
    /\ ~sumcheck_prove_throws(sc_table)
    /\ sc_prover' = sumcheck_prove(sc_table, sc_tr0)
    /\ sc_phase' = "proved"
    /\ UNCHANGED <<sc_table, sc_tr0, sc_verifier>>

\* sumcheck_verify(pf, tr_V, sum of t), tr_V holding what tr_P held
ScVerify ==
    /\ sc_phase = "proved"
    /\ sc_verifier' = sumcheck_verify(sc_prover.pf, sc_tr0, SumSeq(sc_table))
    /\ sc_phase' = "verified"
    /\ UNCHANGED <<sc_table, sc_tr0, sc_prover>>

----------------------------------------------------------------------------
(* Trace rows, commitments, public instance (fidesinnova.cpp) *)

OP_PUSH == 0
OP_ADD == 1
OP_MUL == 2
OP_SUB == 3
OP_AND == 4
OP_OR == 5
OP_HALT == 255

\* a TraceRow as trace_with_gdb fills it from 64-bit register values
TraceRow(pc, op, x, y, z, h) ==
    [pc |-> pc, opcode |-> fr_from_u64(op), x |-> fr_from_u64(x), y |-> fr_from_u64(y),
     z |-> fr_from_u64(z), is_halt |-> fr_from_u64(h), x_raw |-> x, y_raw |-> y, z_raw |-> z]

Max(a, b) == IF a > b THEN a ELSE b

RECURSIVE Pow2AtLeast(_, _)
\* pow2 = 1; while (pow2 < T) pow2 <<= 1
Pow2AtLeast(len, p) == IF p < len THEN Pow2AtLeast(len, 2 * p) ELSE p

next_pow2(x) == IF x <= 1 THEN 1 ELSE Pow2AtLeast(x, 1)

poly_from_file_bytes_monomial(bytes) ==
    poly_normalize([i \in 1..Len(bytes) |-> fr_from_u64(bytes[i])])

\* commit mode of main: the CodeCommit of a source file
CodeCommitOf(bytes) ==
    LET codeBytes == Len(bytes)
        maxDeg == (IF codeBytes # 0 THEN codeBytes - 1 ELSE 0) + 64
        pp == kzg_setup_deterministic(maxDeg)
    IN [code_sha |-> hash_bytes(bytes),
        code_comm_kzg_base |-> kzg_commit(pp, poly_from_file_bytes_monomial(bytes)),
        code_size |-> codeBytes]

\* "code-blind"
CodeBlindPrefix == <<99, 111, 100, 101, 45, 98, 108, 105, 110, 100>>
BlindDegree == 8

blinding_poly_from_domain_tag(tag) ==
    poly_normalize([k \in 1..(BlindDegree + 1) |->
        fr_from_u64(DigestTop64(hash_bytes(CodeBlindPrefix \o tag \o <<(k - 1) % 256>>)))])

RECURSIVE DeriveFrom(_, _, _, _)
\* the indices pushed from the j-th on; cur is the running digest
DeriveFrom(cur, domain, k, j) ==
    IF j >= k THEN <<>>
    ELSE LET d == hash_bytes(cur \o BigEndianBytes(j % 4, 4))
             x == DigestTop64(d)
         IN <<x % (IF domain # 0 THEN domain ELSE 1)>> \o DeriveFrom(d, domain, k, j + 1)

derive_indices(seed, domain, k) == DeriveFrom(seed, domain, k, 0)

RowSeedByte == 82
row_seed_of(seed) == hash_bytes(Append(seed, RowSeedByte))

\* G1 commitments of the four LUT polynomials written by gen_lut_and_or.cpp
LutComms == [x |-> 11, y |-> 12, z |-> 13, op |-> 14]

RECURSIVE BitAnd(_, _, _)
BitAnd(a, b, bits) ==
    IF bits = 0 THEN 0
    ELSE 2 * BitAnd(a \div 2, b \div 2, bits - 1) + (IF a % 2 = 1 /\ b % 2 = 1 THEN 1 ELSE 0)

RECURSIVE BitOr(_, _, _)
BitOr(a, b, bits) ==
    IF bits = 0 THEN 0
    ELSE 2 * BitOr(a \div 2, b \div 2, bits - 1) + (IF a % 2 = 1 \/ b % 2 = 1 THEN 1 ELSE 0)

Low4(v) == v % 16

----------------------------------------------------------------------------
(* Prover *)

\* the LUT openings pushed for the AND / OR rows (index only)
LutOpeningsOf(trace) ==
    LET rows == SelectSeq(trace, LAMBDA r : fr_to_u64(r.opcode) \in {OP_AND, OP_OR})
    IN [i \in 1..Len(rows) |->
          LET opv == fr_to_u64(rows[i].opcode)
              base == IF opv = OP_AND THEN 0 ELSE 256
          IN [idx |-> base + Low4(rows[i].x_raw) * 16 + Low4(rows[i].y_raw)]]

RowOpeningAt(pp, polys, i) ==
    LET zi == fr_from_u64(i)
        zip == fr_from_u64(i + 1)
        pc_i == kzg_open(pp, polys.pc, zi)
        pc_ip1 == kzg_open(pp, polys.pc, zip)
        op_i == kzg_open(pp, polys.op, zi)
        x_i == kzg_open(pp, polys.x, zi)
        y_i == kzg_open(pp, polys.y, zi)
        z_i == kzg_open(pp, polys.z, zi)
        h_i == kzg_open(pp, polys.h, zi)
    IN [idx |-> i,
        pc_i |-> pc_i.value, pc_wit_i |-> pc_i.witness,
        pc_ip1 |-> pc_ip1.value, pc_wit_ip1 |-> pc_ip1.witness,
        op_i |-> op_i.value, op_wit_i |-> op_i.witness,
        x_i |-> x_i.value, x_wit_i |-> x_i.witness,
        y_i |-> y_i.value, y_wit_i |-> y_i.witness,
        z_i |-> z_i.value, z_wit_i |-> z_i.witness,
        h_i |-> h_i.value, h_wit_i |-> h_i.witness]

\* the six columns of the trace, padded with zeros to the power of two
TraceColumns(trace) ==
    LET T == Len(trace)
        pow2 == Pow2AtLeast(T, 1)
    IN [pc |-> [i \in 1..pow2 |-> IF i <= T THEN fr_from_u64(trace[i].pc) ELSE 0],
        op |-> [i \in 1..pow2 |-> IF i <= T THEN trace[i].opcode ELSE 0],
        z |-> [i \in 1..pow2 |-> IF i <= T THEN trace[i].z ELSE 0],
        h |-> [i \in 1..pow2 |-> IF i <= T THEN trace[i].is_halt ELSE 0],
        x |-> [i \in 1..pow2 |-> IF i <= T THEN trace[i].x ELSE 0],
        y |-> [i \in 1..pow2 |-> IF i <= T THEN trace[i].y ELSE 0]]

TracePolys(cols) ==
    [pc |-> interpolate_on_range0(cols.pc), op |-> interpolate_on_range0(cols.op),
     z |-> interpolate_on_range0(cols.z), x |-> interpolate_on_range0(cols.x),
     y |-> interpolate_on_range0(cols.y), h |-> interpolate_on_range0(cols.h)]

TraceComms(pp, polys) ==
    [pc |-> kzg_commit(pp, polys.pc), op |-> kzg_commit(pp, polys.op),
     z |-> kzg_commit(pp, polys.z), x |-> kzg_commit(pp, polys.x),
     y |-> kzg_commit(pp, polys.y), h |-> kzg_commit(pp, polys.h)]

\* f[i] = (pc[i+1] - (pc[i] + 1)) * (1 - h[i]) for i + 1 < T, 0 elsewhere
TransitionTable(trace) ==
    [k \in 1..Pow2AtLeast(Len(trace), 1) |->
        IF k + 1 <= Len(trace)
        THEN FrMul(FrSub(fr_from_u64(trace[k + 1].pc), FrAdd(fr_from_u64(trace[k].pc), fr_one)),
                   FrSub(fr_one, trace[k].is_halt))
        ELSE 0]

\* C_sess = C_base + Commit(b(domain_tag))
SessionCommitment(pp, code, tag) ==
    FrAdd(code.code_comm_kzg_base, kzg_commit(pp, blinding_poly_from_domain_tag(tag)))

\* the prover's transcript with the commitments to z and x absorbed in the other order
prover_transcript_xz(code, instance, C_sess, comms, lut_loaded) ==
    LET tr0 == absorb_g1(absorb(absorb(absorb(<<>>, instance.domain_tag), instance.input_sha),
                                code.code_sha), C_sess)
        tr1 == absorb_g1(absorb_g1(absorb_g1(absorb_g1(absorb_g1(absorb_g1(tr0,
                   comms.pc), comms.op), comms.x), comms.z), comms.y), comms.h)
    IN IF lut_loaded
       THEN absorb_g1(absorb_g1(absorb_g1(absorb_g1(tr1, LutComms.x), LutComms.y),
                                LutComms.z), LutComms.op)
       ELSE tr1

\* the prover's transcript when it enters the sum-check
prover_transcript(code, instance, C_sess, comms, lut_loaded) ==
    LET tr0 == absorb_g1(absorb(absorb(absorb(<<>>, instance.domain_tag), instance.input_sha),
                                code.code_sha), C_sess)
        tr1 == absorb_g1(absorb_g1(absorb_g1(absorb_g1(absorb_g1(absorb_g1(tr0,
                   comms.pc), comms.op), comms.z), comms.x), comms.y), comms.h)
    IN IF lut_loaded
       THEN absorb_g1(absorb_g1(absorb_g1(absorb_g1(tr1, LutComms.x), LutComms.y),
                                LutComms.z), LutComms.op)
       ELSE tr1

OpOpenings(pp, op_poly, idxs) ==
    [k \in 1..Len(idxs) |->
        [idx |-> idxs[k], value |-> kzg_open(pp, op_poly, fr_from_u64(idxs[k])).value,
         witness |-> kzg_open(pp, op_poly, fr_from_u64(idxs[k])).witness]]

\* the Proof assembled at the end of prove_from_trace, with what the run went through
prove_assemble(pp, code, instance, trace, lut_loaded, polys, comms, C_sess, sc, idxs, rows) ==
    [proof |->
       [code_sha |-> code.code_sha, domain_tag |-> instance.domain_tag,
        input_sha |-> instance.input_sha, code_comm_kzg_sess |-> C_sess,
        pc_comm |-> comms.pc, op_comm |-> comms.op, z_comm |-> comms.z,
        x_comm |-> comms.x, y_comm |-> comms.y, h_comm |-> comms.h,
        lut_x_comm |-> IF lut_loaded THEN LutComms.x ELSE 0,
        lut_y_comm |-> IF lut_loaded THEN LutComms.y ELSE 0,
        lut_z_comm |-> IF lut_loaded THEN LutComms.z ELSE 0,
        lut_op_comm |-> IF lut_loaded THEN LutComms.op ELSE 0,
        trace_pow2 |-> Pow2AtLeast(Len(trace), 1), trace_len |-> Len(trace),
        sc |-> sc.pf, op_openings |-> OpOpenings(pp, polys.op, idxs),
        lut_openings |-> IF lut_loaded THEN LutOpeningsOf(trace) ELSE <<>>,
        row_openings |-> [k \in 1..Len(rows) |-> RowOpeningAt(pp, polys, rows[k])],
        final_output |-> trace[Len(trace)].z_raw],
     at |-> Append(sc.at, sc.st),
     idxs |-> idxs, row_indices |-> rows,
     f |-> TransitionTable(trace), sums |-> sc.sums]

\* from the squeeze of the index seed on
prove_sample(pp, code, instance, trace, lut_loaded, polys, comms, C_sess, sc, seed) ==
    prove_assemble(pp, code, instance, trace, lut_loaded, polys, comms, C_sess, sc,
                   derive_indices(seed, Len(trace), 4),
                   IF Len(trace) >= 2
                   THEN derive_indices(row_seed_of(seed), Len(trace) - 1, 4) ELSE <<>>)

\* from the session commitment and the transcript on
prove_committed(pp, code, instance, trace, lut_loaded, polys, comms, C_sess, sc) ==
    prove_sample(pp, code, instance, trace, lut_loaded, polys, comms, C_sess, sc,
                 squeeze(sc.st))

\* from the commitments to the columns on
prove_interpolated(pp, code, instance, trace, lut_loaded, polys, comms, C_sess) ==
    prove_committed(pp, code, instance, trace, lut_loaded, polys, comms, C_sess,
                    sumcheck_prove(TransitionTable(trace),
                        prover_transcript(code, instance, C_sess, comms, lut_loaded)))

\* from the interpolation of the columns on
prove_columns(pp, code, instance, trace, lut_loaded, polys) ==
    prove_interpolated(pp, code, instance, trace, lut_loaded, polys, TraceComms(pp, polys),
                       SessionCommitment(pp, code, instance.domain_tag))

\* proof: the Proof returned; at: the transcript at each sum-check challenge and at the
\* squeeze of the index seed; idxs, row_indices: the sampled indices; f, sums: the
\* constraint table and the sums of its folds
prove_from_trace(pp, code, instance, trace, logic, lut) ==
    prove_columns(pp, code, instance, trace, logic /\ lut = "present",
                  TracePolys(TraceColumns(trace)))

----------------------------------------------------------------------------
(* Verifier *)

AllowedOpcodes ==
    {fr_from_u64(OP_PUSH), fr_from_u64(OP_ADD), fr_from_u64(OP_MUL), fr_from_u64(OP_SUB),
     fr_from_u64(OP_AND), fr_from_u64(OP_OR), fr_from_u64(OP_HALT)}

\* the header comparisons made against the tag the proof carries
binding_checks_own_tag(pp, code, instance, proof) ==
    IF proof.code_sha # code.code_sha THEN "code sha mismatch"
    ELSE IF proof.code_comm_kzg_sess # SessionCommitment(pp, code, proof.domain_tag)
    THEN "code KZG (session) mismatch"
    ELSE ""

\* the three header comparisons; "" when all pass
binding_checks(pp, code, instance, proof) ==
    IF proof.code_sha # code.code_sha THEN "code sha mismatch"
    ELSE IF proof.code_comm_kzg_sess # SessionCommitment(pp, code, instance.domain_tag)
    THEN "code KZG (session) mismatch"
    ELSE IF proof.domain_tag # instance.domain_tag THEN "domain tag mismatch"
    ELSE ""

\* the size check with >= for >
sizes_check_strict(proof) ==
    IF proof.trace_len = 0 \/ proof.trace_pow2 = 0 \/ proof.trace_len >= proof.trace_pow2
    THEN "invalid trace sizes" ELSE ""

\* the size check made to look at final_output as well
sizes_check_output(proof) ==
    IF proof.trace_len = 0 \/ proof.trace_pow2 = 0 \/ proof.trace_len > proof.trace_pow2
       \/ proof.final_output = U64Modulus - 1
    THEN "invalid trace sizes" ELSE ""

sizes_check(proof) ==
    IF proof.trace_len = 0 \/ proof.trace_pow2 = 0 \/ proof.trace_len > proof.trace_pow2
    THEN "invalid trace sizes" ELSE ""

RECURSIVE OpcodeOpeningsFrom(_, _, _, _)
\* the loop over the opcode openings from the i-th on; "" when every one passes
OpcodeOpeningsFrom(pp, proof, want, i) ==
    IF i > Len(want) THEN ""
    ELSE LET o == proof.op_openings[i]
         IN IF o.idx # want[i] THEN "opcode opening idx mismatch"
            ELSE IF ~kzg_verify(pp, proof.op_comm, fr_from_u64(o.idx), o.value, o.witness)
            THEN "opcode opening pairing fail"
            ELSE IF o.value \notin AllowedOpcodes THEN "opcode not allowed"
            ELSE OpcodeOpeningsFrom(pp, proof, want, i + 1)

\* the switch on the opened opcode, on 64-bit integers
row_semantics(ro) ==
    LET opv == fr_to_u64(ro.op_i)
        xv == fr_to_u64(ro.x_i)
        yv == fr_to_u64(ro.y_i)
        zv == fr_to_u64(ro.z_i)
    IN CASE opv = OP_PUSH -> ""
         [] opv = OP_ADD -> IF zv # (xv + yv) % U64Modulus THEN "ADD semantics" ELSE ""
         [] opv = OP_SUB -> IF zv # (xv + U64Modulus - yv) % U64Modulus
                            THEN "SUB semantics" ELSE ""
         [] opv = OP_MUL -> IF zv # (xv * yv) % U64Modulus THEN "MUL semantics" ELSE ""
         [] opv = OP_AND -> IF Low4(zv) # BitAnd(Low4(xv), Low4(yv), 4)
                            THEN "AND semantics" ELSE ""
         [] opv = OP_OR -> IF Low4(zv) # BitOr(Low4(xv), Low4(yv), 4)
                           THEN "OR semantics" ELSE ""
         [] opv = OP_HALT -> ""
         [] OTHER -> "unexpected opcode in row check"

row_check(pp, proof, ro, want) ==
    LET zi == fr_from_u64(ro.idx)
        zip == fr_from_u64(ro.idx + 1)
    IN IF ro.idx # want THEN "row opening idx mismatch"
       ELSE IF ~kzg_verify(pp, proof.pc_comm, zi, ro.pc_i, ro.pc_wit_i)
       THEN "pc[i] opening fail"
       ELSE IF ~kzg_verify(pp, proof.pc_comm, zip, ro.pc_ip1, ro.pc_wit_ip1)
       THEN "pc[i+1] opening fail"
       ELSE IF ~kzg_verify(pp, proof.op_comm, zi, ro.op_i, ro.op_wit_i)
       THEN "op[i] opening fail"
       ELSE IF ~kzg_verify(pp, proof.x_comm, zi, ro.x_i, ro.x_wit_i)
       THEN "x[i] opening fail"
       ELSE IF ~kzg_verify(pp, proof.y_comm, zi, ro.y_i, ro.y_wit_i)
       THEN "y[i] opening fail"
       ELSE IF ~kzg_verify(pp, proof.z_comm, zi, ro.z_i, ro.z_wit_i)
       THEN "z[i] opening fail"
       ELSE IF ~kzg_verify(pp, proof.h_comm, zi, ro.h_i, ro.h_wit_i)
       THEN "h[i] opening fail"
       ELSE IF ro.h_i = 0 /\ ro.pc_ip1 # FrAdd(ro.pc_i, fr_one)
       THEN "pc local transition fail"
       ELSE row_semantics(ro)

RECURSIVE RowOpeningsFrom(_, _, _, _)
\* the loop over the row openings from the j-th on; "" when every one passes
RowOpeningsFrom(pp, proof, want, j) ==
    IF j > Len(want) THEN ""
    ELSE LET r == row_check(pp, proof, proof.row_openings[j], want[j])
         IN IF r # "" THEN r ELSE RowOpeningsFrom(pp, proof, want, j + 1)

Verdict(accept, why, snaps, op_idx, row_idx, sum, past_end) ==
    [ok |-> accept, reason |-> why, at |-> snaps, idxs |-> op_idx, row_indices |-> row_idx,
     claimed |-> sum, oob |-> past_end]

\* the value the verifier hands to sumcheck_verify as the claimed sum
verifier_claimed_sum(proof) == proof.sc.claimed_sum

has_lut(proof) ==
    proof.lut_x_comm # 0 \/ proof.lut_y_comm # 0 \/ proof.lut_z_comm # 0
    \/ proof.lut_op_comm # 0

\* the verifier's transcript with input_sha absorbed before domain_tag
verifier_transcript_swapped(proof) ==
    LET tr0 == absorb_g1(absorb(absorb(absorb(<<>>, proof.input_sha), proof.domain_tag),
                                proof.code_sha), proof.code_comm_kzg_sess)
        tr1 == absorb_g1(absorb_g1(absorb_g1(absorb_g1(absorb_g1(absorb_g1(tr0,
                   proof.pc_comm), proof.op_comm), proof.z_comm), proof.x_comm),
                   proof.y_comm), proof.h_comm)
    IN IF has_lut(proof)
       THEN absorb_g1(absorb_g1(absorb_g1(absorb_g1(tr1, proof.lut_x_comm),
                proof.lut_y_comm), proof.lut_z_comm), proof.lut_op_comm)
       ELSE tr1

\* the transcript the verifier rebuilds from the proof, up to the sum-check
verifier_transcript(proof) ==
    LET tr0 == absorb_g1(absorb(absorb(absorb(<<>>, proof.domain_tag), proof.input_sha),
                                proof.code_sha), proof.code_comm_kzg_sess)
        tr1 == absorb_g1(absorb_g1(absorb_g1(absorb_g1(absorb_g1(absorb_g1(tr0,
                   proof.pc_comm), proof.op_comm), proof.z_comm), proof.x_comm),
                   proof.y_comm), proof.h_comm)
    IN IF has_lut(proof)
       THEN absorb_g1(absorb_g1(absorb_g1(absorb_g1(tr1, proof.lut_x_comm),
                proof.lut_y_comm), proof.lut_z_comm), proof.lut_op_comm)
       ELSE tr1

\* the loop over the row openings, then return true
verify_rows(pp, proof, at, idxs, claimed, row_indices) ==
    IF Len(proof.row_openings) # Len(row_indices)
    THEN Verdict(FALSE, "row openings size mismatch", at, idxs, row_indices, claimed, FALSE)
    ELSE Verdict(RowOpeningsFrom(pp, proof, row_indices, 1) = "",
                 RowOpeningsFrom(pp, proof, row_indices, 1), at, idxs, row_indices, claimed,
                 FALSE)

\* verify_opcodes without the return for traces of fewer than two rows
verify_opcodes_no_return(pp, proof, at, seed, claimed, idxs) ==
    IF Len(idxs) # Len(proof.op_openings)
    THEN Verdict(FALSE, "opcode opening size mismatch", at, idxs, <<>>, claimed, FALSE)
    ELSE IF OpcodeOpeningsFrom(pp, proof, idxs, 1) # ""
    THEN Verdict(FALSE, OpcodeOpeningsFrom(pp, proof, idxs, 1), at, idxs, <<>>, claimed, FALSE)
    ELSE verify_rows(pp, proof, at, idxs, claimed,
                     derive_indices(row_seed_of(seed), proof.trace_len - 1, 4))

\* the loop over the opcode openings, then the row spot checks
verify_opcodes(pp, proof, at, seed, claimed, idxs) ==
    IF Len(idxs) # Len(proof.op_openings)
    THEN Verdict(FALSE, "opcode opening size mismatch", at, idxs, <<>>, claimed, FALSE)
    ELSE IF OpcodeOpeningsFrom(pp, proof, idxs, 1) # ""
    THEN Verdict(FALSE, OpcodeOpeningsFrom(pp, proof, idxs, 1), at, idxs, <<>>, claimed, FALSE)
    ELSE IF proof.trace_len < 2 THEN Verdict(TRUE, "", at, idxs, <<>>, claimed, FALSE)
    ELSE verify_rows(pp, proof, at, idxs, claimed,
                     derive_indices(row_seed_of(seed), proof.trace_len - 1, 4))

\* from the result of sumcheck_verify on
verify_sampled(pp, proof, claimed, run) ==
    IF ~run.ok THEN Verdict(FALSE, "sumcheck failed", run.at, <<>>, <<>>, claimed, run.oob)
    ELSE verify_opcodes(pp, proof, Append(run.at, run.st), squeeze(run.st), claimed,
                        derive_indices(squeeze(run.st), proof.trace_len, 4))

\* from the header and size checks on
verify_bound(pp, proof, bind, size) ==
    IF bind # "" THEN Verdict(FALSE, bind, <<>>, <<>>, <<>>, 0, FALSE)
    ELSE IF size # "" THEN Verdict(FALSE, size, <<>>, <<>>, <<>>, 0, FALSE)
    ELSE IF ~has_lut(proof) /\ Len(proof.lut_openings) # 0
    THEN Verdict(FALSE, "unexpected LUT openings", <<>>, <<>>, <<>>, 0, FALSE)
    ELSE verify_sampled(pp, proof, verifier_claimed_sum(proof),
                        sumcheck_verify(proof.sc, verifier_transcript(proof),
                                        verifier_claimed_sum(proof)))

\* ok, reason: what verify_proof returns; at: the transcript at each sum-check
\* challenge and at the squeeze of the index seed; idxs, row_indices: the derived
\* indices; claimed: the sum the sum-check was verified against
verify_proof(pp, code, instance, proof) ==
    verify_bound(pp, proof, binding_checks(pp, code, instance, proof), sizes_check(proof))

----------------------------------------------------------------------------
(* main: the SRS each mode recomputes *)

Steps == 300
SrsSlack == 64

ProvePP(code) ==
    LET pow2 == next_pow2(Max(Steps, 2))
    IN kzg_setup_deterministic(
           Max(IF code.code_size # 0 THEN code.code_size - 1 ELSE 0, pow2 - 1) + SrsSlack)

VerifyPP(code, proof) ==
    kzg_setup_deterministic(
        Max(IF code.code_size # 0 THEN code.code_size - 1 ELSE 0,
            IF proof.trace_pow2 # 0 THEN proof.trace_pow2 - 1 ELSE 0) + SrsSlack)

----------------------------------------------------------------------------
(* Commit, prove, verify *)

NoProof ==
    [code_sha |-> <<>>, domain_tag |-> <<>>, input_sha |-> <<>>, code_comm_kzg_sess |-> 0,
     pc_comm |-> 0, op_comm |-> 0, z_comm |-> 0, x_comm |-> 0, y_comm |-> 0, h_comm |-> 0,
     lut_x_comm |-> 0, lut_y_comm |-> 0, lut_z_comm |-> 0, lut_op_comm |-> 0,
     trace_pow2 |-> 0, trace_len |-> 0,
     sc |-> [n_vars |-> 0, claimed_sum |-> 0, rounds |-> <<>>],
     op_openings |-> <<>>, lut_openings |-> <<>>, row_openings |-> <<>>, final_output |-> 0]
NoProverRun ==
    [proof |-> NoProof, at |-> <<>>, idxs |-> <<>>, row_indices |-> <<>>, f |-> <<>>,
     sums |-> <<>>]
NoVerdict == Verdict(FALSE, "", <<>>, <<>>, <<>>, 0, FALSE)

PipeIdle ==
    /\ phase = "idle" /\ trc = <<>> /\ cc = CodeCommitOf(<<>>)
    /\ inst = [domain_tag |-> <<>>, input_sha |-> <<>>]
    /\ uses_logic = FALSE /\ lut_files = "missing"
    /\ prover = NoProverRun /\ prf = NoProof
    /\ vcc = cc /\ vinst = inst /\ verifier = NoVerdict

MaxLen == 3
U32Max == 15

\* (opcode, x, y, z) of the instruction rows a trace cycles through
RowPattern ==
    <<<<OP_ADD, 5, 7, 12>>, <<OP_SUB, 7, 5, 2>>, <<OP_MUL, 3, 4, 12>>,
      <<OP_PUSH, 0, 0, 5>>, <<OP_OR, 12, 10, 14>>>>
Offsets == {0, 1}

\* pc columns of length T: dense from 0, or with a skip, a repeat or a wrap after row k,
\* or with the one row after row k a step ahead (a skip followed by a repeat)
PcColumn(T, fault) ==
    LET k == fault[2]
    IN CASE fault[1] = "dense" -> [i \in 1..T |-> i - 1]
         [] fault[1] = "ahead" -> [i \in 1..T |-> IF i = k + 1 THEN i ELSE i - 1]
         [] fault[1] = "skip" -> [i \in 1..T |-> IF i <= k THEN i - 1 ELSE i]
         [] fault[1] = "repeat" -> [i \in 1..T |-> IF i <= k THEN i - 1 ELSE i - 2]
         [] fault[1] = "wrap" -> [i \in 1..T |-> IF i <= k THEN U32Max - (k - i) ELSE i - k - 1]

PcFaults(T) ==
    {<<"dense", 0>>} \cup ({"skip", "repeat", "wrap"} \X (1..(T - 1))) \cup ({"ahead"} \X (1..(T - 2)))
\* a row whose z is off by one, or whose opcode is none of the seven
RowFaults(T) == {<<"none", 0>>} \cup ({"z", "op"} \X (1..T))

\* the trace of T rows: the pattern from offset off, row halt (if any) the HALT row,
\* with the pc fault pcf and the row fault rowf
TraceOf(T, off, halt, pcf, rowf) ==
    LET pcs == PcColumn(T, pcf)
    IN [i \in 1..T |->
          LET k == RowPattern[((i - 1 + off) % Len(RowPattern)) + 1]
              op == IF rowf = <<"op", i>> THEN 9 ELSE IF i = halt THEN OP_HALT ELSE k[1]
              z == (IF i = halt THEN 0 ELSE k[4]) + (IF rowf = <<"z", i>> THEN 1 ELSE 0)
          IN IF i = halt
             THEN TraceRow(pcs[i], op, 0, 0, z, 1)
             ELSE TraceRow(pcs[i], op, k[2], k[3], z, 0)]

Traces ==
    UNION {{TraceOf(T, off, halt, pcf, rowf) :
               off \in Offsets, halt \in 0..T, pcf \in PcFaults(T), rowf \in RowFaults(T)} :
           T \in 1..MaxLen}

\* traces as the tracer leaves them: dense pc, the HALT row last
TracerTraces ==
    UNION {{TraceOf(T, off, T, <<"dense", 0>>, <<"none", 0>>) : off \in Offsets} :
           T \in 1..MaxLen}

CodeFiles == {<<1, 2, 3>>, <<4, 5>>}
CodeCommits == {CodeCommitOf(bytes) : bytes \in CodeFiles}
DomainTags == {hash_bytes(<<1>>), hash_bytes(<<2>>)}
\* hash_inputs_i64 of no inputs and of the one input 7
InputShas == {hash_bytes(<<>>), hash_bytes(<<0, 0, 0, 0, 0, 0, 0, 7>>)}
Instances == [domain_tag : DomainTags, input_sha : InputShas]

\* the LUT files are looked for only when uses_logic is set
LutCases == {<<FALSE, "missing">>, <<TRUE, "missing">>, <<TRUE, "present">>}

\* prover and verifier run on the same commitment and instance
PipeStart ==
    /\ phase = "init"
    /\ trc \in Traces
    /\ cc = CodeCommitOf(<<1, 2, 3>>)
    /\ inst = [domain_tag |-> hash_bytes(<<1>>), input_sha |-> hash_bytes(<<>>)]
    /\ \E c \in LutCases : uses_logic = c[1] /\ lut_files = c[2]
    /\ prover = NoProverRun /\ prf = NoProof
    /\ vcc = cc /\ vinst = inst /\ verifier = NoVerdict

\* the verifier is handed a commitment and an instance of its own
BindStart ==
    /\ phase = "init"
    /\ trc \in TracerTraces
    /\ cc \in CodeCommits
    /\ inst \in Instances
    /\ uses_logic = FALSE /\ lut_files = "missing"
    /\ prover = NoProverRun /\ prf = NoProof
    /\ vcc \in CodeCommits /\ vinst \in Instances /\ verifier = NoVerdict

\* prove mode: prove_from_trace, then the proof file is what the verifier will read
Prove ==
    /\ phase = "init"
    /\ LET run == prove_from_trace(ProvePP(cc), cc, inst, trc, uses_logic, lut_files)
       IN prover' = run /\ prf' = run.proof
    /\ phase' = "proved"
    /\ UNCHANGED <<trc, cc, inst, uses_logic, lut_files, vcc, vinst, verifier>>

\* verify_proof on the proof file, the verifier's commitment and instance
Verify ==
    /\ phase = "proved"
    /\ verifier' = verify_proof(VerifyPP(vcc, prf), vcc, vinst, prf)
    /\ phase' = "verified"
    /\ UNCHANGED <<trc, cc, inst, uses_logic, lut_files, prover, prf, vcc, vinst>>

----------------------------------------------------------------------------
(* The proof file: write_proof_file, read_proof_file, verify mode of main *)

HexChars == <<"0", "1", "2", "3", "4", "5", "6", "7", "8", "9", "a", "b", "c", "d", "e", "f">>
DecChars == <<"0", "1", "2", "3", "4", "5", "6", "7", "8", "9">>

\* the value of each hexadecimal and of each decimal character
HexValue == [c \in {HexChars[k] : k \in 1..16} |-> (CHOOSE k \in 1..16 : HexChars[k] = c) - 1]
DecValue == [c \in {DecChars[k] : k \in 1..10} |-> (CHOOSE k \in 1..10 : DecChars[k] = c) - 1]

\* one character per byte of the scaled arithmetic
toHex(bytes) == [i \in 1..Len(bytes) |-> HexChars[bytes[i] + 1]]

parse_hex_to_bytes(str) ==
    IF \A i \in 1..Len(str) : str[i] \in DOMAIN HexValue
    THEN [ok |-> TRUE, bytes |-> [i \in 1..Len(str) |-> HexValue[str[i]]]]
    ELSE [ok |-> FALSE, bytes |-> <<>>]

LittleEndianValue(b) == BigEndianValue(Reverse(b))

frhex(x) == toHex(FrSerialize(x))
g1hex(g) == toHex(G1Serialize(g))
a32hex(a) == toHex(a)

\* Fr::deserialize / G1::deserialize of the parsed bytes: the first FrByteSize bytes,
\* little-endian, below the modulus
fr_from_hex(hx) ==
    LET b == parse_hex_to_bytes(hx)
    IN IF b.ok /\ Len(b.bytes) >= FrByteSize
          /\ LittleEndianValue(SubSeq(b.bytes, 1, FrByteSize)) < FrModulus
       THEN [ok |-> TRUE, v |-> LittleEndianValue(SubSeq(b.bytes, 1, FrByteSize))]
       ELSE [ok |-> FALSE, v |-> 0]

g1_from_hex(hx) == fr_from_hex(hx)

RECURSIVE to_decimal(_)
\* operator<< of an unsigned integer
to_decimal(n) ==
    IF n < 10 THEN <<DecChars[n + 1]>>
    ELSE Append(to_decimal(n \div 10), DecChars[(n % 10) + 1])

RECURSIVE DigitsValue(_, _, _)
\* the value of the digits of str from position i on, up to the first non-digit
DigitsValue(str, i, acc) ==
    IF i > Len(str) \/ str[i] \notin DOMAIN DecValue THEN acc
    ELSE DigitsValue(str, i + 1, 10 * acc + DecValue[str[i]])

\* std::stoul / std::stoull: throws when the text does not start with a digit
stoul(str) ==
    IF Len(str) = 0 \/ str[1] \notin DOMAIN DecValue THEN [ok |-> FALSE, v |-> 0]
    ELSE [ok |-> TRUE, v |-> DigitsValue(str, 1, 0)]

\* a line "key:text"; n is the round number of a line "sc_r<n>_g0:text"
Line(key, n, text) == [key |-> key, n |-> n, text |-> text]

\* the keys of the fourteen lines after row_idx, the field each fills, and its type
RowKeys ==
    <<<<"row_pc_i", "pc_i", "fr">>, <<"row_pc_wit_i", "pc_wit_i", "g1">>,
      <<"row_pc_ip1", "pc_ip1", "fr">>, <<"row_pc_wit_ip1", "pc_wit_ip1", "g1">>,
      <<"row_op_i", "op_i", "fr">>, <<"row_op_wit_i", "op_wit_i", "g1">>,
      <<"row_x_i", "x_i", "fr">>, <<"row_x_wit_i", "x_wit_i", "g1">>,
      <<"row_y_i", "y_i", "fr">>, <<"row_y_wit_i", "y_wit_i", "g1">>,
      <<"row_z_i", "z_i", "fr">>, <<"row_z_wit_i", "z_wit_i", "g1">>,
      <<"row_h_i", "h_i", "fr">>, <<"row_h_wit_i", "h_wit_i", "g1">>>>

\* the keys of the G1 lines of the header and the field each fills
G1Keys ==
    <<<<"code_kzg_sess", "code_comm_kzg_sess">>, <<"pc_comm", "pc_comm">>,
      <<"op_comm", "op_comm">>, <<"z_comm", "z_comm">>, <<"x_comm", "x_comm">>,
      <<"y_comm", "y_comm">>, <<"h_comm", "h_comm">>, <<"lut_x_comm", "lut_x_comm">>,
      <<"lut_y_comm", "lut_y_comm">>, <<"lut_z_comm", "lut_z_comm">>,
      <<"lut_op_comm", "lut_op_comm">>>>

RECURSIVE Flatten(_)
Flatten(ss) == IF Len(ss) = 0 THEN <<>> ELSE Flatten(SubSeq(ss, 1, Len(ss) - 1)) \o ss[Len(ss)]

write_proof_file(p) ==
    <<Line("version", <<>>, to_decimal(1)),
      Line("code_sha", <<>>, a32hex(p.code_sha)),
      Line("domain_tag", <<>>, a32hex(p.domain_tag)),
      Line("input_sha", <<>>, a32hex(p.input_sha))>>
    \o [k \in 1..Len(G1Keys) |-> Line(G1Keys[k][1], <<>>, g1hex(p[G1Keys[k][2]]))]
    \o <<Line("trace_len", <<>>, to_decimal(p.trace_len)),
         Line("trace_pow2", <<>>, to_decimal(p.trace_pow2)),
         Line("sc_n", <<>>, to_decimal(p.sc.n_vars)),
         Line("sc_claim", <<>>, frhex(p.sc.claimed_sum)),
         Line("sc_rounds", <<>>, to_decimal(Len(p.sc.rounds)))>>
    \o Flatten([i \in 1..Len(p.sc.rounds) |->
                  <<Line("sc_r_g0", to_decimal(i - 1), frhex(p.sc.rounds[i].g0)),
                    Line("sc_r_g1", to_decimal(i - 1), frhex(p.sc.rounds[i].g1))>>])
    \o <<Line("op_openings", <<>>, to_decimal(Len(p.op_openings)))>>
    \o Flatten([i \in 1..Len(p.op_openings) |->
                  <<Line("op_idx", <<>>, to_decimal(p.op_openings[i].idx)),
                    Line("op_val", <<>>, frhex(p.op_openings[i].value)),
                    Line("op_wit", <<>>, g1hex(p.op_openings[i].witness))>>])
    \o <<Line("row_openings", <<>>, to_decimal(Len(p.row_openings)))>>
    \o Flatten([i \in 1..Len(p.row_openings) |->
                  <<Line("row_idx", <<>>, to_decimal(p.row_openings[i].idx))>>
                  \o [k \in 1..Len(RowKeys) |->
                        Line(RowKeys[k][1], <<>>,
                             IF RowKeys[k][3] = "fr"
                             THEN frhex(p.row_openings[i][RowKeys[k][2]])
                             ELSE g1hex(p.row_openings[i][RowKeys[k][2]]))]])
    \o <<Line("final_output", <<>>, to_decimal(p.final_output))>>

\* Proof p; the members without an initializer hold whatever the memory held
DefaultProof(junk) ==
    [code_sha |-> [i \in 1..DigestSize |-> junk], domain_tag |-> [i \in 1..DigestSize |-> junk],
     input_sha |-> [i \in 1..DigestSize |-> junk], code_comm_kzg_sess |-> junk,
     pc_comm |-> junk, op_comm |-> junk, z_comm |-> junk, x_comm |-> junk, y_comm |-> junk,
     h_comm |-> junk, lut_x_comm |-> junk, lut_y_comm |-> junk, lut_z_comm |-> junk,
     lut_op_comm |-> junk, trace_pow2 |-> 0, trace_len |-> 0,
     sc |-> [n_vars |-> junk, claimed_sum |-> junk, rounds |-> <<>>],
     op_openings |-> <<>>, lut_openings |-> <<>>, row_openings |-> <<>>, final_output |-> 0]

Threw(what) == [st |-> "threw", what |-> what, proof |-> <<>>]

\* rounds.resize(n): the entries added are default-constructed
ResizeRounds(rounds, n, junk) ==
    [k \in 1..n |-> IF k <= Len(rounds) THEN rounds[k] ELSE [g0 |-> junk, g1 |-> junk]]

RECURSIVE RowFieldsFrom(_, _, _, _)
\* the lines after row_idx from the k-th key on: the RowOpening filled, or the key at which
\* the line is missing or does not parse
RowFieldsFrom(lines, at, ro, k) ==
    IF k > Len(RowKeys) THEN [bad |-> "", ro |-> ro]
    ELSE IF at + k > Len(lines) \/ lines[at + k].key # RowKeys[k][1]
            \/ ~fr_from_hex(lines[at + k].text).ok
    THEN [bad |-> RowKeys[k][1], ro |-> ro]
    ELSE RowFieldsFrom(lines, at,
             [ro EXCEPT ![RowKeys[k][2]] = fr_from_hex(lines[at + k].text).v], k + 1)

EmptyRowOpening ==
    [idx |-> 0, pc_i |-> 0, pc_wit_i |-> 0, pc_ip1 |-> 0, pc_wit_ip1 |-> 0, op_i |-> 0,
     op_wit_i |-> 0, x_i |-> 0, x_wit_i |-> 0, y_i |-> 0, y_wit_i |-> 0, z_i |-> 0,
     z_wit_i |-> 0, h_i |-> 0, h_wit_i |-> 0]

RECURSIVE ReadLines(_, _, _, _)
\* the while (getline) loop of read_proof_file from line i on, p being the Proof so far
ReadLines(lines, i, p, junk) ==
    IF i > Len(lines) THEN [st |-> "ok", what |-> "", proof |-> p]
    ELSE LET ln == lines[i]
             key == ln.key
             g1k == {k \in 1..Len(G1Keys) : G1Keys[k][1] = key}
         IN CASE key \in {"code_sha", "domain_tag", "input_sha"} ->
                   IF ~parse_hex_to_bytes(ln.text).ok \/ Len(ln.text) # DigestSize
                   THEN Threw("bad " \o key)
                   ELSE ReadLines(lines, i + 1,
                            [p EXCEPT ![key] = parse_hex_to_bytes(ln.text).bytes], junk)
              [] g1k # {} ->
                   IF g1_from_hex(ln.text).ok
                   THEN ReadLines(lines, i + 1,
                            [p EXCEPT ![G1Keys[CHOOSE k \in g1k : TRUE][2]] =
                                          g1_from_hex(ln.text).v], junk)
                   ELSE ReadLines(lines, i + 1, p, junk)
              [] key \in {"trace_len", "trace_pow2"} ->
                   IF ~stoul(ln.text).ok THEN Threw("stoul")
                   ELSE ReadLines(lines, i + 1,
                            [p EXCEPT ![key] = stoul(ln.text).v % (U32Max + 1)], junk)
              [] key = "sc_n" ->
                   IF ~stoul(ln.text).ok THEN Threw("stoul")
                   ELSE ReadLines(lines, i + 1, [p EXCEPT !.sc.n_vars = stoul(ln.text).v], junk)
              [] key = "sc_claim" ->
                   IF fr_from_hex(ln.text).ok
                   THEN ReadLines(lines, i + 1,
                            [p EXCEPT !.sc.claimed_sum = fr_from_hex(ln.text).v], junk)
                   ELSE ReadLines(lines, i + 1, p, junk)
              [] key = "sc_rounds" ->
                   IF ~stoul(ln.text).ok THEN Threw("stoul")
                   ELSE ReadLines(lines, i + 1,
                            [p EXCEPT !.sc.rounds = ResizeRounds(@, stoul(ln.text).v, junk)],
                            junk)
              [] key \in {"sc_r_g0", "sc_r_g1"} ->
                   IF stoul(ln.n).v >= Len(p.sc.rounds) THEN Threw("sc index")
                   ELSE IF ~fr_from_hex(ln.text).ok
                   THEN Threw(IF key = "sc_r_g0" THEN "bad sc g0" ELSE "bad sc g1")
                   ELSE ReadLines(lines, i + 1,
                            [p EXCEPT !.sc.rounds[stoul(ln.n).v + 1][
                                          IF key = "sc_r_g0" THEN "g0" ELSE "g1"] =
                                              fr_from_hex(ln.text).v], junk)
              [] key = "op_openings" ->
                   IF ~stoul(ln.text).ok THEN Threw("stoul")
                   ELSE ReadLines(lines, i + 1, [p EXCEPT !.op_openings = <<>>], junk)
              [] key = "op_idx" ->
                   IF ~stoul(ln.text).ok THEN Threw("stoul")
                   ELSE IF i + 1 > Len(lines) \/ lines[i + 1].key # "op_val"
                           \/ ~fr_from_hex(lines[i + 1].text).ok
                   THEN Threw("op_val missing")
                   ELSE IF i + 2 > Len(lines) \/ lines[i + 2].key # "op_wit"
                           \/ ~g1_from_hex(lines[i + 2].text).ok
                   THEN Threw("op_wit missing")
                   ELSE ReadLines(lines, i + 3,
                            [p EXCEPT !.op_openings = Append(@,
                                [idx |-> stoul(ln.text).v,
                                 value |-> fr_from_hex(lines[i + 1].text).v,
                                 witness |-> g1_from_hex(lines[i + 2].text).v])], junk)
              [] key = "row_openings" ->
                   IF ~stoul(ln.text).ok THEN Threw("stoul")
                   ELSE ReadLines(lines, i + 1, [p EXCEPT !.row_openings = <<>>], junk)
              [] key = "row_idx" ->
                   IF ~stoul(ln.text).ok THEN Threw("stoul")
                   ELSE LET r == RowFieldsFrom(lines, i,
                                    [EmptyRowOpening EXCEPT !.idx = stoul(ln.text).v], 1)
                        IN IF r.bad # "" THEN Threw(r.bad)
                           ELSE ReadLines(lines, i + 1 + Len(RowKeys),
                                    [p EXCEPT !.row_openings = Append(@, r.ro)], junk)
              [] key = "final_output" ->
                   IF ~stoul(ln.text).ok THEN Threw("stoul")
                   ELSE ReadLines(lines, i + 1,
                            [p EXCEPT !.final_output = stoul(ln.text).v % U64Modulus], junk)
              [] OTHER -> ReadLines(lines, i + 1, p, junk)

read_proof_file(lines, junk) == ReadLines(lines, 1, DefaultProof(junk), junk)

\* the values an uninitialized member may hold
Junk == {0, 1}

\* the traces whose proofs are written: the shortest and the longest of the tracer's, and
\* one with an opcode outside the seven
FileTraces ==
    {TraceOf(T, 0, T, <<"dense", 0>>, <<"none", 0>>) : T \in {1, MaxLen}}
    \cup {TraceOf(2, 0, 2, <<"dense", 0>>, <<"op", 1>>)}

\* p with the LUT opening pushed for the OR row of RowPattern
WithLutOpening(p) ==
    [p EXCEPT !.lut_openings = <<[idx |-> 256 + Low4(RowPattern[5][2]) * 16 + Low4(RowPattern[5][3])]>>]

\* the Proof values handed to write_proof_file
FileProofs ==
    LET code == CodeCommitOf(<<1, 2, 3>>)
        instance == [domain_tag |-> hash_bytes(<<1>>), input_sha |-> hash_bytes(<<>>)]
        proved == {prove_from_trace(ProvePP(code), code, instance, t, c[1], c[2]).proof :
                      t \in FileTraces, c \in LutCases}
        other == [domain_tag |-> hash_bytes(<<2>>), input_sha |-> hash_bytes(<<>>)]
        retagged == {prove_from_trace(ProvePP(code), code, other, t, FALSE, "missing").proof :
                        t \in FileTraces}
    IN proved \cup {WithLutOpening(p) : p \in {q \in proved : has_lut(q)}} \cup retagged

FileStart ==
    /\ phase = "proved"
    /\ trc = <<>>
    /\ cc = CodeCommitOf(<<1, 2, 3>>)
    /\ inst = [domain_tag |-> hash_bytes(<<1>>), input_sha |-> hash_bytes(<<>>)]
    /\ uses_logic = FALSE /\ lut_files = "missing"
    /\ prover = NoProverRun /\ prf \in FileProofs
    /\ vcc \in CodeCommits \cup {CodeCommitOf(<<>>)} /\ vinst = inst /\ verifier = NoVerdict

\* the number of lines of the file with the given key
CountKey(lines, key) == Cardinality({i \in 1..Len(lines) : lines[i].key = key})

\* the text of the first line with the given key
TextOf(lines, key) == lines[CHOOSE i \in 1..Len(lines) : lines[i].key = key].text

SetText(lines, key, text) ==
    [i \in 1..Len(lines) |-> IF lines[i].key = key THEN [lines[i] EXCEPT !.text = text] ELSE lines[i]]

\* the key that declares a count, and the key of the first line of each entry it counts
CountKeys == {<<"sc_rounds", "sc_r_g0">>, <<"op_openings", "op_idx">>, <<"row_openings", "row_idx">>}

\* the files a written proof file is turned into by an edit of one place
FileEdits(lines) ==
    LET lastOp == CHOOSE i \in 1..Len(lines) :
                      lines[i].key = "op_idx" /\ \A j \in (i + 1)..Len(lines) : lines[j].key # "op_idx"
    IN {<<lines[1], Line("note", <<>>, <<"x">>)>> \o Tail(lines)}
       \cup {SetText(lines, "version", to_decimal(2))}
       \cup {SetText(lines, ck[1], to_decimal(stoul(TextOf(lines, ck[1])).v + 1)) : ck \in CountKeys}
       \cup {SetText(lines, ck[1], to_decimal(stoul(TextOf(lines, ck[1])).v - 1)) :
                ck \in {k \in CountKeys : stoul(TextOf(lines, k[1])).v >= 1}}
       \cup (IF CountKey(lines, "op_idx") = 0 THEN {}
             ELSE {SubSeq(lines, 1, lastOp - 1) \o SubSeq(lines, lastOp + 3, Len(lines)),
                   SubSeq(lines, 1, lastOp)})
       \cup {SetText(lines, "code_sha", [TextOf(lines, "code_sha") EXCEPT ![1] = "z"])}

\* write_proof_file on the proof
WriteProof ==
    /\ phase = "proved"
    /\ pf_file' = write_proof_file(prf)
    /\ phase' = "written"
    /\ UNCHANGED <<trc, cc, inst, uses_logic, lut_files, prover, prf, vcc, vinst, verifier>>
    /\ UNCHANGED <<pf_read, exit_code, printed>>

\* the file is edited before anything reads it
EditFile ==
    /\ phase = "written" /\ pf_read = NoRead /\ exit_code = -1
    /\ pf_file' \in FileEdits(pf_file)
    /\ phase' = "edited"
    /\ UNCHANGED <<trc, cc, inst, uses_logic, lut_files, prover, prf, vcc, vinst, verifier>>
    /\ UNCHANGED <<pf_read, exit_code, printed>>

\* read_proof_file on the file
ReadProof ==
    /\ phase \in {"written", "edited"} /\ pf_read = NoRead
    /\ \E junk \in Junk : pf_read' = read_proof_file(pf_file, junk)
    /\ UNCHANGED pipeVars
    /\ UNCHANGED <<pf_file, exit_code, printed>>

Exit(code, out, verdict) == [code |-> code, printed |-> out, verdict |-> verdict]

\* verify_and_exit with the instance the verifier was started with
verify_and_exit_own_instance(code, p) ==
    LET v == verify_proof(VerifyPP(code, p), code,
                 [domain_tag |-> hash_bytes(<<1>>), input_sha |-> hash_bytes(<<>>)], p)
    IN IF v.ok THEN Exit(0, <<"ACCEPT">>, v)
       ELSE Exit(2, <<"REJECT", "Reason: ", v.reason>>, v)

\* main from verify_proof on: the verdict printed, and the exit code
verify_and_exit(code, p) ==
    LET v == verify_proof(VerifyPP(code, p), code,
                 [domain_tag |-> p.domain_tag, input_sha |-> p.input_sha], p)
    IN IF v.ok THEN Exit(0, <<"ACCEPT">>, v)
       ELSE Exit(2, <<"REJECT", "Reason: ", v.reason>>, v)

\* main in mode -v on the commitment read by read_commit_file and the proof file
main_verify(code, lines, junk) ==
    IF code.code_size = 0 THEN Exit(2, <<"Error: ", "bad commit file (code_size=0)">>, NoVerdict)
    ELSE LET rd == read_proof_file(lines, junk)
         IN IF rd.st = "threw" THEN Exit(2, <<"Error: ", rd.what>>, NoVerdict)
            ELSE verify_and_exit(code, rd.proof)

VerifyMode ==
    /\ phase \in {"written", "edited"} /\ exit_code = -1
    /\ \E junk \in Junk :
          LET out == main_verify(vcc, pf_file, junk)
          IN exit_code' = out.code /\ printed' = out.printed /\ verifier' = out.verdict
    /\ UNCHANGED <<phase, trc, cc, inst, uses_logic, lut_files, prover, prf, vcc, vinst>>
    /\ UNCHANGED <<pf_file, pf_read>>

----------------------------------------------------------------------------
(* The trace producers: trace_with_gdb and run_vm *)

MaxSteps == 4
MaxProg == 3

\* what one pass of the stepping loop meets: the program has exited, the target is not
\* stopped, the instruction is not recognized, it is recognized but not supported, or it
\* is an add or an orr with the register values of RowPattern
Responses == {"exited", "running", "unrecognized", "unsupported", "add", "orr"}

\* the synthetic HALT row
HaltRow(pc) == TraceRow(pc, OP_HALT, 0, 0, 0, 1)

\* the row pushed for a recognized, supported instruction; pcIdx is a uint32_t
RecordedRow(r, pcIdx) ==
    LET k == IF r = "add" THEN RowPattern[1] ELSE RowPattern[5]
    IN TraceRow(pcIdx, k[1], k[2], k[3], k[4], 0)

\* if (g.isExited(stepr)): the HALT row is pushed unless the trace is empty
tw_on_exit_silent(trace, pcIdx) == trace

tw_on_exit(trace, pcIdx) == IF trace # <<>> THEN Append(trace, HaltRow(pcIdx)) ELSE trace

RECURSIVE TwLoop(_, _, _, _, _)
\* for (size_t stepped = 0; stepped < maxSteps; ++stepped)
TwLoop(resp, maxSteps, stepped, pcIdx, trace) ==
    IF stepped >= maxSteps THEN trace
    ELSE LET r == resp[stepped + 1]
         IN IF r = "exited" THEN tw_on_exit(trace, pcIdx)
            ELSE IF r \in {"running", "unrecognized", "unsupported"}
            THEN TwLoop(resp, maxSteps, stepped + 1, pcIdx, trace)
            ELSE TwLoop(resp, maxSteps, stepped + 1, (pcIdx + 1) % (U32Max + 1),
                        Append(trace, RecordedRow(r, pcIdx)))

\* if (trace.empty()): one HALT row with pc = 0
tw_fallback(trace) == IF trace = <<>> THEN <<HaltRow(0)>> ELSE trace

trace_with_gdb_no_fallback(resp, maxSteps) == TwLoop(resp, maxSteps, 0, 0, <<>>)

trace_with_gdb(resp, maxSteps) == tw_fallback(TwLoop(resp, maxSteps, 0, 0, <<>>))

TwStart ==
    /\ tw_phase = "init"
    /\ tw_resp \in SeqsOfLen(Responses, MaxSteps)
    /\ tw_maxSteps \in 0..MaxSteps
    /\ tw_trace = <<>>

TraceWithGdb ==
    /\ tw_phase = "init"
    /\ tw_trace' = trace_with_gdb(tw_resp, tw_maxSteps)
    /\ tw_phase' = "returned"
    /\ UNCHANGED <<tw_resp, tw_maxSteps, vm_phase, vm_prog, vm_inputs, vm_out>>

\* the six instructions, HALT, and an Op outside the enumerators (9)
VmInstrs ==
    {[op |-> OP_PUSH, imm |-> 5], [op |-> OP_ADD, imm |-> 0], [op |-> OP_SUB, imm |-> 0],
     [op |-> OP_MUL, imm |-> 0], [op |-> OP_AND, imm |-> 0], [op |-> OP_OR, imm |-> 0],
     [op |-> OP_HALT, imm |-> 0], [op |-> 9, imm |-> 0]}
VmInputs == {<<>>, <<3, 10>>}
\* what stack.back() yields on an empty stack
VmJunk == {0, 7}

VmTop(stack) == IF Len(stack) >= 1 THEN stack[Len(stack)] ELSE 0
VmSecond(stack) == IF Len(stack) >= 2 THEN stack[Len(stack) - 1] ELSE 0

\* the arithmetic and logic instructions take two values off the stack
vm_underflow(op, stack) == op # OP_PUSH /\ Len(stack) < 2

\* the stack after the instruction (top last); xx is the old top, yy the value under it
VmStack(ins, stack, junk) ==
    LET xx == stack[Len(stack)]
        yy == stack[Len(stack) - 1]
        rest == SubSeq(stack, 1, Len(stack) - 2)
    IN CASE ins.op = OP_PUSH -> Append(stack, ins.imm % U64Modulus)
         [] vm_underflow(ins.op, stack) -> <<junk>>
         [] ins.op = OP_ADD -> Append(rest, (yy + xx) % U64Modulus)
         [] ins.op = OP_SUB -> Append(rest, (yy - xx) % U64Modulus)
         [] ins.op = OP_MUL -> Append(rest, (yy * xx) % U64Modulus)
         [] ins.op = OP_AND -> Append(rest, BitAnd(Low4(xx), Low4(yy), 4))
         [] ins.op = OP_OR -> Append(rest, BitOr(Low4(xx), Low4(yy), 4))

VmRun(st, trace, ub) == [st |-> st, trace |-> trace, ub |-> ub]

RECURSIVE VmLoop(_, _, _, _, _, _)
\* for (;;) of run_vm; ub tells whether an instruction has read below the stack
VmLoop(prog, stack, pc, trace, junk, ub) ==
    LET op == IF pc < Len(prog) THEN prog[pc + 1].op ELSE OP_HALT
        a == VmTop(stack)
        b == VmSecond(stack)
    IN IF op = OP_HALT
       THEN VmRun("ok", Append(trace, TraceRow(pc % (U32Max + 1), op, a, b, VmTop(stack), 1)), ub)
       ELSE IF op \notin {OP_PUSH, OP_ADD, OP_SUB, OP_MUL, OP_AND, OP_OR}
       THEN VmRun("threw", <<>>, ub)
       ELSE LET next == VmStack(prog[pc + 1], stack, junk)
                row == TraceRow(pc % (U32Max + 1), op, a, b, VmTop(next), 0)
            IN IF pc + 1 >= Len(prog)
               THEN VmRun("ok", Append(trace, row), ub \/ vm_underflow(op, stack))
               ELSE VmLoop(prog, next, pc + 1, Append(trace, row), junk,
                           ub \/ vm_underflow(op, stack))

run_vm(prog, inputs, junk) == VmLoop(prog, inputs, 0, <<>>, junk, FALSE)

VmStart ==
    /\ vm_phase = "init"
    /\ vm_prog \in SeqsUpTo(VmInstrs, MaxProg)
    /\ vm_inputs \in VmInputs
    /\ vm_out = NoVmRun

\* auto trace = run_vm(prog, inputs); a read below the stack yields some value or ends
\* the process
RunVm ==
    /\ vm_phase = "init"
    /\ \E junk \in VmJunk :
          LET r == run_vm(vm_prog, vm_inputs, junk)
          IN vm_out' \in {[st |-> r.st, trace |-> r.trace]}
                            \cup (IF r.ub THEN {[st |-> "crashed", trace |-> <<>>]} ELSE {})
    /\ vm_phase' = "returned"
    /\ UNCHANGED <<tw_phase, tw_resp, tw_maxSteps, tw_trace, vm_prog, vm_inputs>>

----------------------------------------------------------------------------
(* A proof changed in one place after verify_proof has accepted it *)

FlipDigest(h) == [h EXCEPT ![1] = (h[1] + 1) % ByteBase]
FlipFr(x) == FrAdd(x, 1)

ColumnComms == {"pc_comm", "op_comm", "z_comm", "x_comm", "y_comm", "h_comm"}
RowValues == {"pc_i", "pc_ip1", "op_i", "x_i", "y_i", "z_i", "h_i"}
RowWitnesses ==
    {"pc_wit_i", "pc_wit_ip1", "op_wit_i", "x_wit_i", "y_wit_i", "z_wit_i", "h_wit_i"}

\* the proofs that differ from p in code_sha, in domain_tag, in one column commitment,
\* in one opening value or in one opening witness
BindingTampers(p) ==
    {[p EXCEPT !.code_sha = FlipDigest(@)], [p EXCEPT !.domain_tag = FlipDigest(@)]}
    \cup {[p EXCEPT ![c] = FlipFr(@)] : c \in ColumnComms}
    \cup {[p EXCEPT !.op_openings[k].value = FlipFr(@)] : k \in 1..Len(p.op_openings)}
    \cup {[p EXCEPT !.op_openings[k].witness = FlipFr(@)] : k \in 1..Len(p.op_openings)}
    \cup {[p EXCEPT !.row_openings[j][f] = FlipFr(@)] :
             j \in 1..Len(p.row_openings), f \in RowValues \cup RowWitnesses}

\* the proofs that differ from p in trace_len or in trace_pow2
SizeTampers(p) ==
    {[p EXCEPT !.trace_len = n] : n \in {0, p.trace_pow2 + 1}}
    \cup {[p EXCEPT !.trace_pow2 = n] : n \in {0, 3, 5, 6} \ {p.trace_pow2}}

\* the proofs that differ from p in the sum-check's n_vars, in the length of its rounds
\* list, or in a trace_pow2 that stays a power of two
SumcheckTampers(p) ==
    {[p EXCEPT !.sc.n_vars = n] : n \in {p.sc.n_vars + 1} \cup ({p.sc.n_vars - 1} \ {-1})}
    \cup {[p EXCEPT !.sc.rounds = SubSeq(@, 1, Len(@) - 1)] : k \in 1..(IF Len(p.sc.rounds) > 0 THEN 1 ELSE 0)}
    \cup {[p EXCEPT !.trace_pow2 = 2 * @]}

\* the traces whose proofs are changed
TamperStart ==
    /\ phase = "init"
    /\ trc \in TracerTraces
    /\ cc = CodeCommitOf(<<1, 2, 3>>)
    /\ inst = [domain_tag |-> hash_bytes(<<1>>), input_sha |-> hash_bytes(<<>>)]
    /\ \E c \in LutCases : uses_logic = c[1] /\ lut_files = c[2]
    /\ prover = NoProverRun /\ prf = NoProof
    /\ vcc = cc /\ vinst = inst /\ verifier = NoVerdict

\* the accepted proof is replaced by one that differs from it in one place
Tamper ==
    /\ phase = "verified" /\ verifier.ok
    /\ prf' \in BindingTampers(prf) \cup SizeTampers(prf) \cup SumcheckTampers(prf)
    /\ phase' = "tampered"
    /\ UNCHANGED <<trc, cc, inst, uses_logic, lut_files, prover, vcc, vinst, verifier>>

\* verify_proof on the changed proof
VerifyTampered ==
    /\ phase = "tampered"
    /\ verifier' = verify_proof(VerifyPP(vcc, prf), vcc, vinst, prf)
    /\ phase' = "reverified"
    /\ UNCHANGED <<trc, cc, inst, uses_logic, lut_files, prover, prf, vcc, vinst>>

\* the traces whose proofs are changed in final_output: with and without a HALT row
\* at the end, dense and with every pc and row fault
OutputTraces ==
    UNION {{TraceOf(T, 0, halt, pcf, rowf) :
               halt \in {0, T}, pcf \in PcFaults(T), rowf \in RowFaults(T)} :
           T \in 1..MaxLen}

OutputStart ==
    /\ phase = "init"
    /\ trc \in OutputTraces
    /\ cc = CodeCommitOf(<<1, 2, 3>>)
    /\ inst = [domain_tag |-> hash_bytes(<<1>>), input_sha |-> hash_bytes(<<>>)]
    /\ uses_logic = FALSE /\ lut_files = "missing"
    /\ prover = NoProverRun /\ prf = NoProof
    /\ vcc \in CodeCommits /\ vinst = inst /\ verifier = NoVerdict

\* the proof, accepted or not, is replaced by one that differs from it in final_output
ChangeOutput ==
    /\ phase = "verified"
    /\ \E o \in {0, (prf.final_output + 1) % U64Modulus, U64Modulus - 1} \ {prf.final_output} :
          prf' = [prf EXCEPT !.final_output = o]
    /\ phase' = "tampered"
    /\ UNCHANGED <<trc, cc, inst, uses_logic, lut_files, prover, vcc, vinst, verifier>>

----------------------------------------------------------------------------
(* Single functions of the program, each applied to one input *)

\* the digests squeezed as index seed
IndexSeeds == {hash_bytes(<<b>>) : b \in 0..7}

\* jolt_style_vm.cpp, prove and verify: k_lookup = 4 opcode indices over the padded
\* length, k_rows_spot = 2 row indices over T - 1 (over 1 when T = 1)
vm_opcode_indices(seed, T) == derive_indices(seed, Pow2AtLeast(T, 1), 4)
vm_row_indices(seed, T) == derive_indices(row_seed_of(seed), IF T > 1 THEN T - 1 ELSE 1, 2)

IndexInputs == [f : {"indices"}, seed : IndexSeeds, T : 1..MaxLen]

\* the indices prove_from_trace and verify_proof derive from the seed, and those of
\* prove and verify of jolt_style_vm.cpp
SampleIndices ==
    /\ fn_phase = "init" /\ fn_in.f = "indices"
    /\ fn_out' = [idxs |-> derive_indices(fn_in.seed, fn_in.T, 4),
                  row_indices |-> IF fn_in.T >= 2
                                  THEN derive_indices(row_seed_of(fn_in.seed), fn_in.T - 1, 4)
                                  ELSE <<>>,
                  vm_idxs |-> vm_opcode_indices(fn_in.seed, fn_in.T),
                  vm_row_indices |-> vm_row_indices(fn_in.seed, fn_in.T)]
    /\ fn_phase' = "done"
    /\ UNCHANGED fn_in

HornerMaxLen == 3
HornerInputs ==
    [f : {"horner"}, a : SeqsUpTo({0, 1, 2, FrModulus - 1}, HornerMaxLen),
     z : {0, 1, 2, FrModulus - 1}]

\* evalPoly and divXminusZ of kzg_mcl.hpp and kzg_open of fidesinnova.cpp on the same
\* coefficient vector and point
Horner ==
    /\ fn_phase = "init" /\ fn_in.f = "horner"
    /\ fn_out' = [eval |-> evalPoly(fn_in.a, fn_in.z),
                  eval_tail |-> IF Len(fn_in.a) = 0 THEN 0 ELSE evalPoly(Tail(fn_in.a), fn_in.z),
                  div |-> divXminusZ(fn_in.a, fn_in.z),
                  open |-> kzg_open(kzg_setup_deterministic(HornerMaxLen), fn_in.a, fn_in.z),
                  q_coeff |-> IF Len(fn_in.a) = 0 THEN <<>>
                              ELSE kzg_open_quotient(fn_in.a, fn_in.z)]
    /\ fn_phase' = "done"
    /\ UNCHANGED fn_in

InterpMaxLen == 3
InterpInputs == [f : {"interp"}, vals : SeqsUpTo({0, 1, 2, FrModulus - 1}, InterpMaxLen)]

Interpolate ==
    /\ fn_phase = "init" /\ fn_in.f = "interp"
    /\ fn_out' = [P |-> interpolate_on_range0(fn_in.vals)]
    /\ fn_phase' = "done"
    /\ UNCHANGED fn_in

U64Inputs == [f : {"u64"}, v : 0..(U64Modulus - 1)]

\* fr_from_u64 and then fr_to_u64, as the row check reads the opened values
U64RoundTrip ==
    /\ fn_phase = "init" /\ fn_in.f = "u64"
    /\ fn_out' = [x |-> fr_from_u64(fn_in.v), back |-> fr_to_u64(fr_from_u64(fn_in.v))]
    /\ fn_phase' = "done"
    /\ UNCHANGED fn_in

\* the width of the words of SHA256 (uint32_t), scaled
WordBits == 3

RECURSIVE BitXor(_, _, _)
BitXor(a, b, bits) ==
    IF bits = 0 THEN 0
    ELSE 2 * BitXor(a \div 2, b \div 2, bits - 1) + (IF a % 2 # b % 2 THEN 1 ELSE 0)

\* SHA256::Maj
Maj(x, y, z) == BitXor(BitAnd(x, y, WordBits), BitAnd(x, z, WordBits), WordBits)

MajInputs ==
    [f : {"maj"}, x : 0..(IntPow(2, WordBits) - 1), y : 0..(IntPow(2, WordBits) - 1),
     z : 0..(IntPow(2, WordBits) - 1)]

ApplyMaj ==
    /\ fn_phase = "init" /\ fn_in.f = "maj"
    /\ fn_out' = [maj |-> Maj(fn_in.x, fn_in.y, fn_in.z)]
    /\ fn_phase' = "done"
    /\ UNCHANGED fn_in

FnInputs == IndexInputs \cup HornerInputs \cup InterpInputs \cup U64Inputs \cup MajInputs

FnStart == fn_phase = "init" /\ fn_in \in FnInputs /\ fn_out = <<>>

----------------------------------------------------------------------------
(* Specifications *)

Init == KzIdle /\ ApiIdle /\ ScIdle /\ PipeStart /\ FileIdle /\ TraceIdle /\ FnIdle
Next ==
    \/ Prove /\ UNCHANGED <<kzVars, apiVars, scVars, fileVars, traceVars, fnVars>>
    \/ Verify /\ UNCHANGED <<kzVars, apiVars, scVars, fileVars, traceVars, fnVars>>
Spec == Init /\ [][Next]_vars

InitBind == KzIdle /\ ApiIdle /\ ScIdle /\ BindStart /\ FileIdle /\ TraceIdle /\ FnIdle
NextBind ==
    \/ Prove /\ UNCHANGED <<kzVars, apiVars, scVars, fileVars, traceVars, fnVars>>
    \/ Verify /\ UNCHANGED <<kzVars, apiVars, scVars, fileVars, traceVars, fnVars>>
SpecBind == InitBind /\ [][NextBind]_vars

InitTamper == KzIdle /\ ApiIdle /\ ScIdle /\ TamperStart /\ FileIdle /\ TraceIdle /\ FnIdle
NextTamper ==
    \/ Prove /\ UNCHANGED <<kzVars, apiVars, scVars, fileVars, traceVars, fnVars>>
    \/ Verify /\ UNCHANGED <<kzVars, apiVars, scVars, fileVars, traceVars, fnVars>>
    \/ Tamper /\ UNCHANGED <<kzVars, apiVars, scVars, fileVars, traceVars, fnVars>>
    \/ VerifyTampered /\ UNCHANGED <<kzVars, apiVars, scVars, fileVars, traceVars, fnVars>>
SpecTamper == InitTamper /\ [][NextTamper]_vars

InitOutput == KzIdle /\ ApiIdle /\ ScIdle /\ OutputStart /\ FileIdle /\ TraceIdle /\ FnIdle
NextOutput ==
    \/ Prove /\ UNCHANGED <<kzVars, apiVars, scVars, fileVars, traceVars, fnVars>>
    \/ Verify /\ UNCHANGED <<kzVars, apiVars, scVars, fileVars, traceVars, fnVars>>
    \/ ChangeOutput /\ UNCHANGED <<kzVars, apiVars, scVars, fileVars, traceVars, fnVars>>
    \/ VerifyTampered /\ UNCHANGED <<kzVars, apiVars, scVars, fileVars, traceVars, fnVars>>
SpecOutput == InitOutput /\ [][NextOutput]_vars

InitFile == KzIdle /\ ApiIdle /\ ScIdle /\ FileStart /\ pf_file = <<>> /\ pf_read = NoRead /\ exit_code = -1 /\ printed = <<>> /\ TraceIdle /\ FnIdle
NextFile ==
    \/ WriteProof /\ UNCHANGED <<kzVars, apiVars, scVars, traceVars, fnVars>>
    \/ EditFile /\ UNCHANGED <<kzVars, apiVars, scVars, traceVars, fnVars>>
    \/ ReadProof /\ UNCHANGED <<kzVars, apiVars, scVars, traceVars, fnVars>>
    \/ VerifyMode /\ UNCHANGED <<kzVars, apiVars, scVars, traceVars, fnVars>>
SpecFile == InitFile /\ [][NextFile]_vars

InitTrace == KzIdle /\ ApiIdle /\ ScIdle /\ PipeIdle /\ FileIdle /\ ((TwStart /\ VmIdle) \/ (TwIdle /\ VmStart)) /\ FnIdle
NextTrace ==
    \/ TraceWithGdb /\ UNCHANGED <<kzVars, apiVars, scVars, pipeVars, fileVars, fnVars>>
    \/ RunVm /\ UNCHANGED <<kzVars, apiVars, scVars, pipeVars, fileVars, fnVars>>
SpecTrace == InitTrace /\ [][NextTrace]_vars

InitFn == KzIdle /\ ApiIdle /\ ScIdle /\ PipeIdle /\ FileIdle /\ TraceIdle /\ FnStart
NextFn ==
    \/ SampleIndices /\ UNCHANGED <<kzVars, apiVars, scVars, pipeVars, fileVars, traceVars>>
    \/ Horner /\ UNCHANGED <<kzVars, apiVars, scVars, pipeVars, fileVars, traceVars>>
    \/ Interpolate /\ UNCHANGED <<kzVars, apiVars, scVars, pipeVars, fileVars, traceVars>>
    \/ U64RoundTrip /\ UNCHANGED <<kzVars, apiVars, scVars, pipeVars, fileVars, traceVars>>
    \/ ApplyMaj /\ UNCHANGED <<kzVars, apiVars, scVars, pipeVars, fileVars, traceVars>>
SpecFn == InitFn /\ [][NextFn]_vars

InitKZG == KzStart /\ ApiIdle /\ ScIdle /\ PipeIdle /\ FileIdle /\ TraceIdle /\ FnIdle
NextKZG ==
    \/ KzCommit /\ UNCHANGED <<apiVars, scVars, pipeVars, fileVars, traceVars, fnVars>>
    \/ KzOpen /\ UNCHANGED <<apiVars, scVars, pipeVars, fileVars, traceVars, fnVars>>
    \/ KzVerify /\ UNCHANGED <<apiVars, scVars, pipeVars, fileVars, traceVars, fnVars>>
    \/ KzCommitVm /\ UNCHANGED <<apiVars, scVars, pipeVars, fileVars, traceVars, fnVars>>
SpecKZG == InitKZG /\ [][NextKZG]_vars

InitAPI == KzIdle /\ ApiStart /\ ScIdle /\ PipeIdle /\ FileIdle /\ TraceIdle /\ FnIdle
NextAPI ==
    \/ ApiCommit /\ UNCHANGED <<kzVars, scVars, pipeVars, fileVars, traceVars, fnVars>>
    \/ ApiOpen /\ UNCHANGED <<kzVars, scVars, pipeVars, fileVars, traceVars, fnVars>>
    \/ ApiVerify /\ UNCHANGED <<kzVars, scVars, pipeVars, fileVars, traceVars, fnVars>>
SpecAPI == InitAPI /\ [][NextAPI]_vars

InitSC == KzIdle /\ ApiIdle /\ ScStart /\ PipeIdle /\ FileIdle /\ TraceIdle /\ FnIdle
NextSC ==
    \/ ScProve /\ UNCHANGED <<kzVars, apiVars, pipeVars, fileVars, traceVars, fnVars>>
    \/ ScVerify /\ UNCHANGED <<kzVars, apiVars, pipeVars, fileVars, traceVars, fnVars>>
SpecSC == InitSC /\ [][NextSC]_vars

----------------------------------------------------------------------------
(* Properties *)

\* the rows i (from 1) with is_halt = 0 and pc[i+1] # pc[i] + 1
BadPcRows(t) ==
    {i \in 1..(Len(t) - 1) : t[i].is_halt = 0 /\ t[i + 1].pc # t[i].pc + 1}

\* the relation the opcode of a row puts on its operands
RowRelation(r) ==
    CASE r.opcode = fr_from_u64(OP_ADD) -> r.z = FrAdd(r.x, r.y)
      [] r.opcode = fr_from_u64(OP_SUB) -> r.z = FrSub(r.x, r.y)
      [] r.opcode = fr_from_u64(OP_MUL) -> r.z = FrMul(r.x, r.y)
      [] r.opcode = fr_from_u64(OP_AND) ->
             Low4(r.z_raw) = BitAnd(Low4(r.x_raw), Low4(r.y_raw), 4)
      [] r.opcode = fr_from_u64(OP_OR) ->
             Low4(r.z_raw) = BitOr(Low4(r.x_raw), Low4(r.y_raw), 4)
      [] OTHER -> TRUE

SevenOpcodes ==
    {fr_from_u64(op) : op \in {OP_PUSH, OP_ADD, OP_SUB, OP_MUL, OP_AND, OP_OR, OP_HALT}}

\* every opcode one of the seven, every row's operands in its opcode's relation
RowsWellFormed(t) ==
    \A i \in 1..Len(t) : t[i].opcode \in SevenOpcodes /\ RowRelation(t[i])

ValidTrace(t) == Len(t) >= 1 /\ RowsWellFormed(t) /\ BadPcRows(t) = {}

\* C1: the proof prove_from_trace returns for a valid trace is accepted by
\* verify_proof run with the same parameters, commitment and instance
C1_ValidTraceAccepted ==
    (phase = "verified" /\ ValidTrace(trc)) => verifier.ok

\* a valid three-row trace with its LUT commitments loaded has been accepted
C1_Witness ==
    /\ phase = "verified" /\ ValidTrace(trc) /\ Len(trc) >= 3
    /\ has_lut(prf) /\ verifier.ok

BindingReasons ==
    {"code sha mismatch", "code KZG (session) mismatch", "domain tag mismatch"}

\* C2: a proof made under domain tag A and checked with the same commitment under an
\* instance whose domain tag is B # A is rejected, for the session commitment or for
\* the domain tag
C2_SessionBinding ==
    (phase = "verified" /\ vcc = cc /\ vinst.domain_tag # inst.domain_tag)
        => (~verifier.ok
            /\ verifier.reason \in {"code KZG (session) mismatch", "domain tag mismatch"})

\* a proof has been checked under the other domain tag and turned down
C2_Witness ==
    /\ phase = "verified" /\ vcc = cc /\ vinst.domain_tag # inst.domain_tag
    /\ vinst.input_sha = inst.input_sha /\ Len(trc) >= 2
    /\ verifier.reason = "code KZG (session) mismatch"

\* C3: on a proof of the prover's, the verifier's transcript is the prover's at every
\* sum-check challenge and at the squeeze of the index seed, and the verifier derives
\* the prover's opcode indices and, where it gets to them, its row indices
C3_SameTranscript ==
    phase = "verified"
        => /\ verifier.at = prover.at
           /\ verifier.idxs = prover.idxs
           /\ (verifier.ok => verifier.row_indices = prover.row_indices)

\* a run with two sum-check rounds and four row samples has been verified
C3_Witness ==
    /\ phase = "verified" /\ verifier.ok
    /\ Len(prover.at) = 3 /\ Len(prover.row_indices) = 4 /\ has_lut(prf)

\* C4: the proof of a trace with a pc fault (some row i with is_halt = 0 and
\* pc[i+1] # pc[i] + 1), its rows otherwise well formed, is rejected with
\* 'pc local transition fail'
C4_PcFaultRejected ==
    (phase = "verified" /\ RowsWellFormed(trc) /\ BadPcRows(trc) # {})
        => (~verifier.ok /\ verifier.reason = "pc local transition fail")

\* C5: every accepted proof has sum-check claimed sum 0
C5_ClaimedSumZero ==
    (phase = "verified" /\ verifier.ok) => prf.sc.claimed_sum = 0

\* C6: in every row opening of an accepted proof, an opened ADD has z = x + y, an
\* opened SUB z = x - y and an opened MUL z = x * y, in Fr
C6_ArithmeticEnforced ==
    (phase = "verified" /\ verifier.ok)
        => \A k \in 1..Len(prf.row_openings) :
              LET ro == prf.row_openings[k]
              IN /\ ro.op_i = fr_from_u64(OP_ADD) => ro.z_i = FrAdd(ro.x_i, ro.y_i)
                 /\ ro.op_i = fr_from_u64(OP_SUB) => ro.z_i = FrSub(ro.x_i, ro.y_i)
                 /\ ro.op_i = fr_from_u64(OP_MUL) => ro.z_i = FrMul(ro.x_i, ro.y_i)

\* C7: for a polynomial the SRS can commit to, kzg_open returns P(z) and a witness
\* that kzg_verify accepts against kzg_commit(pp, P)
C7_KzgCompleteness ==
    kz_phase = "verified" => (kz_open.value = PolyValue(kz_poly, kz_z) /\ kz_ok)

\* a polynomial of full degree has been opened where its value is not zero
C7_Witness ==
    /\ kz_phase = "verified" /\ Len(kz_poly) = KzMaxDeg + 1 /\ kz_poly[Len(kz_poly)] # 0
    /\ kz_open.value # 0 /\ kz_open.witness # 0 /\ kz_ok

\* C8: for a non-empty coefficient vector of degree at most n - 1, KZG::commit and
\* KZG::open return without error and KZG::verify is true
C8_ApiCompleteness ==
    (api_phase = "verified" /\ Len(api_coeffs) >= 1)
        => (api_commit.st = "ok" /\ api_open.st = "ok" /\ api_ok)

\* C9: sumcheck_verify accepts what sumcheck_prove returns for the sum of the table,
\* and after each round the verifier's cur_sum is the sum of the prover's folded table
C9_SumcheckCompleteness ==
    sc_phase = "verified" => (sc_verifier.ok /\ sc_verifier.sums = sc_prover.sums)

\* a table of four entries with a non-zero sum has gone through two rounds
C9_Witness ==
    /\ sc_phase = "verified" /\ Len(sc_table) = 4 /\ SumSeq(sc_table) # 0
    /\ Len(sc_verifier.sums) = 2 /\ sc_verifier.sums[1] # 0 /\ sc_verifier.ok

\* C10: a proof whose code_sha, session commitment, domain_tag or input_sha differs
\* from the verifier's commitment and instance is rejected with a binding error
C10_BindingRejects ==
    (/\ phase = "verified"
     /\ \/ prf.code_sha # vcc.code_sha
        \/ prf.code_comm_kzg_sess
              # SessionCommitment(VerifyPP(vcc, prf), vcc, vinst.domain_tag)
        \/ prf.domain_tag # vinst.domain_tag
        \/ prf.input_sha # vinst.input_sha)
        => (~verifier.ok /\ verifier.reason \in BindingReasons)

\* the one place in which the changed proof differs from the prover's
ChangedFields == {f \in DOMAIN prf : prf[f] # prover.proof[f]}

\* C11: an accepted proof changed in exactly one of code_sha, domain_tag, a column
\* commitment, an opening value (of an opcode opening or of a row opening) or an
\* opening witness is rejected
C11_OneChangeRejected ==
    (/\ phase = "reverified"
     /\ ChangedFields \subseteq
            {"code_sha", "domain_tag", "op_openings", "row_openings"} \cup ColumnComms)
        => ~verifier.ok

\* C12: a proof with trace_len = 0, or trace_pow2 not a power of two, or
\* trace_len > trace_pow2, that passes the header comparisons is rejected with
\* 'invalid trace sizes'
C12_SizingRejected ==
    (/\ phase = "reverified"
     /\ binding_checks(VerifyPP(vcc, prf), vcc, vinst, prf) = ""
     /\ \/ prf.trace_len = 0
        \/ next_pow2(prf.trace_pow2) # prf.trace_pow2 \/ prf.trace_pow2 = 0
        \/ prf.trace_len > prf.trace_pow2)
        => (~verifier.ok /\ verifier.reason = "invalid trace sizes")

TenAbsorbed(p) ==
    p.domain_tag \o p.input_sha \o p.code_sha \o G1Serialize(p.code_comm_kzg_sess)
    \o G1Serialize(p.pc_comm) \o G1Serialize(p.op_comm) \o G1Serialize(p.z_comm)
    \o G1Serialize(p.x_comm) \o G1Serialize(p.y_comm) \o G1Serialize(p.h_comm)

LutAbsorbed(p) ==
    G1Serialize(p.lut_x_comm) \o G1Serialize(p.lut_y_comm) \o G1Serialize(p.lut_z_comm)
    \o G1Serialize(p.lut_op_comm)

RECURSIVE RoundsAbsorbed(_, _)
\* the serializations of g(0), g(1) of the first k sum-check rounds
RoundsAbsorbed(p, k) ==
    IF k = 0 THEN <<>>
    ELSE RoundsAbsorbed(p, k - 1) \o FrSerialize(p.sc.rounds[k].g0)
         \o FrSerialize(FrAdd(p.sc.rounds[k].g0, p.sc.rounds[k].g1))

\* at: the transcript at each challenge and at the squeeze of the index seed; head: what
\* was absorbed before the first round
TranscriptShape(at, p, head) ==
    \A k \in 1..Len(at) :
        at[k] = head \o RoundsAbsorbed(p, IF k <= p.sc.n_vars THEN k ELSE p.sc.n_vars)

\* C14 as stated: before the first round prover and verifier have absorbed the ten
\* values domain_tag, input_sha, code_sha, code_kzg_sess, pc, op, z, x, y, h and nothing
\* else, and each challenge is squeezed from a transcript that ends with the g(0), g(1)
\* of its round
C14_TenThenRounds ==
    phase = "verified"
        => /\ TranscriptShape(prover.at, prf, TenAbsorbed(prf))
           /\ TranscriptShape(verifier.at, prf, TenAbsorbed(prf))

\* C14: the ten values in that order, then the four LUT commitments x, y, z, op when the
\* proof carries them and nothing otherwise, then g(0), g(1) of each round before that
\* round's challenge, on both sides
C14_TenLutThenRounds ==
    phase = "verified"
        => LET head == TenAbsorbed(prf) \o (IF has_lut(prf) THEN LutAbsorbed(prf) ELSE <<>>)
           IN /\ TranscriptShape(prover.at, prf, head)
              /\ TranscriptShape(verifier.at, prf, head)

\* a proof with LUT commitments and two sum-check rounds has been verified
C14_Witness ==
    /\ phase = "verified" /\ has_lut(prf) /\ prf.sc.n_vars = 2
    /\ Len(prover.at) = 3 /\ Len(verifier.at) = 3 /\ prf.sc.rounds[1].g1 # 0

----------------------------------------------------------------------------
(* The proof file *)

\* C15: read_proof_file applied to the file written by write_proof_file(p) returns a
\* proof equal to p in every field, the LUT openings included.
C15_RoundTrip ==
    (phase = "written" /\ pf_read # NoRead) => (pf_read.st = "ok" /\ pf_read.proof = prf)

\* the file has a key the format does not define, a version other than 1, or a declared
\* count that differs from the number of entries present
KnownKeys ==
    {"version", "code_sha", "domain_tag", "input_sha", "trace_len", "trace_pow2", "sc_n",
     "sc_claim", "sc_rounds", "sc_r_g0", "sc_r_g1", "op_openings", "op_idx", "op_val",
     "op_wit", "row_openings", "row_idx", "final_output"}
    \cup {G1Keys[k][1] : k \in 1..Len(G1Keys)} \cup {RowKeys[k][1] : k \in 1..Len(RowKeys)}
HasUnknownKey(lines) == \E i \in 1..Len(lines) : lines[i].key \notin KnownKeys
WrongVersion(lines) == CountKey(lines, "version") = 0 \/ stoul(TextOf(lines, "version")).v # 1
CountMismatch(lines) ==
    \E ck \in CountKeys : CountKey(lines, ck[1]) = 0 \/ stoul(TextOf(lines, ck[1])).v # CountKey(lines, ck[2])

\* C16: a proof file with an unknown key, a version other than 1 or a declared count
\* different from the entries present is never accepted: read_proof_file fails or the
\* verifier rejects.
C16_StructuralRejected ==
    (exit_code # -1 /\ (HasUnknownKey(pf_file) \/ WrongVersion(pf_file) \/ CountMismatch(pf_file)))
        => exit_code # 0 /\ printed[1] # "ACCEPT"

\* C17: verify mode exits 0 iff the proof is accepted; a rejected proof exits nonzero with
\* its reason printed; exit code 2 comes only from internal errors, never from a rejection.
C17_ExitCodes ==
    exit_code # -1 =>
        /\ (exit_code = 0 <=> printed = <<"ACCEPT">>)
        /\ (printed[1] = "REJECT" => exit_code # 0 /\ Len(printed) = 3 /\ printed[3] # "")
        /\ (exit_code = 2 => printed[1] = "Error: ")

----------------------------------------------------------------------------
(* kzg_commit and the length of the coefficient vector *)

\* the sum of coeffs[i] * srs_g1[i] over a vector no longer than the SRS
CommitSum(pp, f) == SumSeq([i \in 1..Len(f) |-> FrMul(f[i], pp.srs_g1[i])])

\* C18: kzg_commit fails with an error whenever the coefficient vector has more than
\* N + 1 entries, and for every vector with at most N + 1 entries it returns the sum of
\* coeffs[i] * srs_g1[i] without reading past the SRS; checked for kzg_commit of
\* fidesinnova.cpp and for kzg_commit of jolt_style_vm.cpp.
C18_CommitLength ==
    /\ kz_phase \notin {"idle", "init"} =>
          IF Len(kz_poly) > Len(kz_pp.srs_g1) THEN kz_phase = "commit_threw"
          ELSE kz_phase # "commit_threw" /\ kz_commit = CommitSum(kz_pp, kz_poly)
    /\ kz_vm # NoVmCommit =>
          IF Len(kz_poly) > Len(kz_pp.srs_g1) THEN kz_vm.st = "threw"
          ELSE kz_vm.st = "ok" /\ kz_vm.g = CommitSum(kz_pp, kz_poly)

----------------------------------------------------------------------------
(* The trace producers *)

\* a trace that is not empty, with opcodes of the seven only, pc rising by one after
\* every row that is not a halt row, and no halt row before the last row
WellFormedTrace(t) ==
    /\ Len(t) >= 1
    /\ \A i \in 1..Len(t) :
          /\ t[i].opcode \in SevenOpcodes
          /\ (i < Len(t) /\ t[i].is_halt = 0) => t[i + 1].pc = t[i].pc + 1
          /\ t[i].is_halt = 1 => i = Len(t)

RECURSIVE SeenFrom(_, _, _)
SeenFrom(resp, maxSteps, k) ==
    IF k > maxSteps \/ k > Len(resp) THEN <<>>
    ELSE IF resp[k] = "exited" THEN <<"exited">>
    ELSE <<resp[k]>> \o SeenFrom(resp, maxSteps, k + 1)
Seen == SeenFrom(tw_resp, tw_maxSteps, 1)
Recorded == Len(SelectSeq(Seen, LAMBDA r : r \in {"add", "orr"}))
ExitSeen == Len(Seen) >= 1 /\ Seen[Len(Seen)] = "exited"
IsHaltRow(row) == row.is_halt = 1 /\ row.opcode = fr_from_u64(OP_HALT)

----------------------------------------------------------------------------
(* The SRS and its secret *)

\* the members of an SRS that holds the G1 powers, [1]G2 and [tau]G2 and nothing else
PublicSrsFields == {"g1", "g2", "srs_g1", "g2_s"}

\* C21: the parameter object returned by setup holds only the G1 powers, [1]G2 and
\* [tau]G2, with g1_powers[i] = tau^i * g1_powers[0] and g2_tau = tau * g2_one, and no
\* member from which tau itself can be read.
C21_SecretDiscarded ==
    kz_phase # "idle" =>
        LET tau == fr_from_seed32(hash_bytes(SrsSeedString))
        IN /\ \A i \in 1..Len(kz_pp.srs_g1) : kz_pp.srs_g1[i] = FrMul(FrPow(tau, i - 1), kz_pp.srs_g1[1])
           /\ kz_pp.g2_s = FrMul(tau, kz_pp.g2)
           /\ DOMAIN kz_pp \subseteq PublicSrsFields

----------------------------------------------------------------------------
(* The transition-constraint table *)

\* pc rises by one after every row but the last that is not a halt row
SuccessorChain(trace) ==
    \A i \in 1..(Len(trace) - 1) : trace[i].is_halt = 0 => trace[i + 1].pc = trace[i].pc + 1

\* C22: for the padded table f with f[i] = (pc[i+1] - pc[i] - 1) * (1 - h[i]) for i in
\* [0, T-2] and f[i] = 0 otherwise, the sum of f is 0 in Fr if and only if
\* pc[i+1] = pc[i] + 1 for every i in [0, T-2] with h[i] = 0.
C22_SumZeroIffChain ==
    phase \in {"proved", "verified"} => (SumSeq(prover.f) = 0 <=> SuccessorChain(trc))

----------------------------------------------------------------------------
(* The sampled indices *)

\* C23: for a trace of length T, prover and verifier derive exactly 4 opcode-opening
\* indices, all in [0, T-1], and (when T >= 2) exactly 4 row-opening indices, all in
\* [0, T-2], so that pc is opened at i and i+1 <= T-1 only; for T = 2 every row index
\* is 0. Checked for fidesinnova.cpp and for prove / verify of jolt_style_vm.cpp.
C23_IndexRanges ==
    (fn_phase = "done" /\ fn_in.f = "indices") =>
        /\ \A ix \in {fn_out.idxs, fn_out.vm_idxs} :
              Len(ix) = 4 /\ \A k \in 1..4 : ix[k] \in 0..(fn_in.T - 1)
        /\ \A rx \in {fn_out.row_indices, fn_out.vm_row_indices} :
              /\ fn_in.T >= 2 => Len(rx) = 4
              /\ \A k \in 1..Len(rx) : rx[k] \in 0..(fn_in.T - 2)
              /\ fn_in.T = 2 => \A k \in 1..Len(rx) : rx[k] = 0

----------------------------------------------------------------------------
(* Horner evaluation and division by X - z *)

\* coefficient i (from 0) of q(X) * (X - z) + y, for q of n - 1 coefficients
DividendCoeff(q, z, y, i) ==
    FrAdd(FrSub(IF i >= 1 THEN q[i] ELSE 0, IF i < Len(q) THEN FrMul(z, q[i + 1]) ELSE 0),
          IF i = 0 THEN y ELSE 0)

\* C24: for a coefficient vector a (ascending powers, not empty) and a point z,
\* evalPoly(a, z) = a[0] + z * evalPoly(a[1:], z); divXminusZ(a, z) returns the remainder
\* y = evalPoly(a, z) and a quotient q with one coefficient fewer than a, in ascending
\* order, with a(X) = q(X) * (X - z) + y; kzg_open's value_out and quotient are the same
\* y and q. For the empty vector all three return zero and an empty quotient.
C24_HornerDivision ==
    (fn_phase = "done" /\ fn_in.f = "horner") =>
        LET a == fn_in.a
            z == fn_in.z
            q == fn_out.div.q
            y == fn_out.div.y
        IN IF Len(a) = 0
           THEN fn_out.eval = 0 /\ y = 0 /\ q = <<>> /\ fn_out.open = [value |-> 0, witness |-> 0]
           ELSE /\ fn_out.eval = FrAdd(a[1], FrMul(z, fn_out.eval_tail))
                /\ fn_out.eval = PolyValue(a, z)
                /\ y = fn_out.eval
                /\ Len(q) = Len(a) - 1
                /\ \A i \in 0..(Len(a) - 1) : DividendCoeff(q, z, y, i) = a[i + 1]
                /\ fn_out.open.value = y
                /\ fn_out.q_coeff = q
                /\ fn_out.open.witness
                      = kzg_commit(kzg_setup_deterministic(HornerMaxLen), poly_normalize(q))

\* a vector of full length with a non-zero top coefficient, divided at a point that is
\* not zero, with a remainder and a quotient that are not zero
C24_Witness ==
    /\ fn_phase = "done" /\ fn_in.f = "horner"
    /\ Len(fn_in.a) = HornerMaxLen /\ fn_in.a[HornerMaxLen] # 0 /\ fn_in.z # 0
    /\ fn_out.div.y # 0 /\ fn_out.div.q[1] # 0 /\ fn_out.open.witness # 0

----------------------------------------------------------------------------
(* Interpolation on 0..n-1 *)

\* C25: for a vector vals of n field elements, interpolate_on_range0(vals) returns a
\* normalized polynomial P (no zero top coefficient) of degree < n with P(i) = vals[i]
\* for every i in 0..n-1; for a vector of zeros P is the empty polynomial.
C25_Interpolation ==
    (fn_phase = "done" /\ fn_in.f = "interp") =>
        LET vals == fn_in.vals
            P == fn_out.P
        IN /\ Len(P) <= Len(vals)
           /\ Len(P) > 0 => P[Len(P)] # 0
           /\ \A i \in 0..(Len(vals) - 1) : PolyValue(P, fr_from_u64(i)) = vals[i + 1]
           /\ (\A k \in 1..Len(vals) : vals[k] = 0) => P = <<>>

\* values of full length whose interpolant has a lower degree than the length allows
C25_Witness ==
    /\ fn_phase = "done" /\ fn_in.f = "interp"
    /\ Len(fn_in.vals) = InterpMaxLen /\ fn_in.vals[1] # fn_in.vals[2]
    /\ Len(fn_out.P) = 2

----------------------------------------------------------------------------
(* The number of sum-check rounds the verifier runs *)

\* C26: verify_proof runs the sum-check over exactly log2(trace_pow2) rounds: a proof
\* whose sc.n_vars differs from log2(trace_pow2), or whose rounds list holds fewer than
\* sc.n_vars entries, is rejected, and sumcheck_verify never reads a round entry that
\* is not in the proof.
C26_RoundsMatchSize ==
    phase = "reverified" =>
        /\ ~verifier.oob
        /\ verifier.ok => /\ IntPow(2, prf.sc.n_vars) = prf.trace_pow2
                          /\ Len(prf.sc.rounds) >= prf.sc.n_vars

----------------------------------------------------------------------------
(* Fr to uint64_t and back *)

\* C27: fr_to_u64(fr_from_u64(v)) = v for every 64-bit v, so that the opv, xv, yv and zv
\* of the row check are the opened field values whenever these are below 2^64.
C27_U64RoundTrip ==
    (fn_phase = "done" /\ fn_in.f = "u64") => fn_out.back = fn_in.v

----------------------------------------------------------------------------
(* The public instance of the CLI's verify mode *)

\* C28: in mode -v the PublicInstance is copied from the proof file, so the CLI never
\* rejects with 'domain tag mismatch', and a proof generated under any domain_tag is
\* accepted whenever its remaining checks pass: on the file as written, the CLI
\* accepts exactly when verify_proof accepts the proof under the instance it was
\* generated with.
C28_InstanceFromProof ==
    exit_code # -1 =>
        /\ \A i \in 1..Len(printed) : printed[i] # "domain tag mismatch"
        /\ (phase = "written" /\ vcc.code_size # 0) =>
              /\ printed[1] # "Error: "
              /\ exit_code = 0 <=>
                    verify_proof(VerifyPP(vcc, prf), vcc,
                        [domain_tag |-> prf.domain_tag, input_sha |-> prf.input_sha], prf).ok

\* a proof generated under another domain_tag than the one the model's verifier was
\* started with, written, and accepted by the CLI
C28_Witness ==
    /\ phase = "written" /\ exit_code = 0 /\ printed = <<"ACCEPT">>
    /\ prf.domain_tag # vinst.domain_tag
    /\ prf.trace_len = MaxLen

----------------------------------------------------------------------------
(* final_output *)

\* C29: the prover sets final_output to the z_raw of the last row of the trace, and
\* verify_proof returns the same result (accept or reject, and the reason) for two
\* proofs that differ only in final_output.
C29_OutputIgnored ==
    /\ phase \in {"proved", "verified"} => prf.final_output = trc[Len(trc)].z_raw % U64Modulus
    /\ (phase = "reverified" /\ ChangedFields = {"final_output"}) =>
          LET before == verify_proof(VerifyPP(vcc, prover.proof), vcc, vinst, prover.proof)
          IN verifier.ok = before.ok /\ verifier.reason = before.reason /\ verifier = before

\* an accepted proof with a final_output that is not zero, verified again with another
\* final_output
C29_Witness ==
    /\ phase = "reverified" /\ ChangedFields = {"final_output"}
    /\ prover.proof.final_output # 0 /\ verifier.ok /\ Len(trc) = MaxLen

----------------------------------------------------------------------------
(* SHA256::Maj *)

\* bit k of the word v
BitOf(v, k) == (v \div IntPow(2, k)) % 2

\* C30: SHA256::Maj(x, y, z) is the bitwise majority of x, y and z: each bit of the
\* result is 1 exactly when at least two of the three bits at its position are 1.
C30_MajIsMajority ==
    (fn_phase = "done" /\ fn_in.f = "maj") =>
        \A k \in 0..(WordBits - 1) :
            BitOf(fn_out.maj, k) = 1
                <=> BitOf(fn_in.x, k) + BitOf(fn_in.y, k) + BitOf(fn_in.z, k) >= 2

====
